---- MODULE Spec2Model ----
(***************************************************************************)
(* Data-consistency model of the student/teacher portal: the roster store  *)
(* (attendees, deleted_attendees, users), the attendance ledger            *)
(* (attendance/<date>) and the assignment tracker (assignments,            *)
(* submissions), driven by the UI event handlers that read and write the   *)
(* remote document store.  Every handler is split at its await points, so  *)
(* that handlers of different clients interleave as they do on the store.  *)
(***************************************************************************)
EXTENDS Integers, FiniteSets, Sequences, TLC

\* ------------------------------------------------------------------------
\* Bounds
\* ------------------------------------------------------------------------
\* number of document ids the store's auto-id generator can hand out
MaxIds == 2

Ids == 1..MaxIds

\* e-mail addresses a form accepts, as <<local part, domain>>
Emails == {<<"u1", "x.com">>, <<"u2", "x.com">>}

\* names a teacher can type into the attendee form (the local parts of the
\* e-mails are names too: signup derives the name from the e-mail)
Names == {"n1"}

Roles == {"student", "teacher"}

\* sign-ups and logins the login page handles
MaxLoginOps == 1

\* devices showing the login page
LoginClients == {"p1", "p2"}

\* ------------------------------------------------------------------------
\* State
\* ------------------------------------------------------------------------
VARIABLES
    \* --- document store: roster
    attendees,          \* collection "attendees": id -> [name, email]
    deleted_attendees,  \* collection "deleted_attendees": id -> [name, email, originalId, deletedAt]
    users,              \* collection "users": uid (= account e-mail) -> profile fields
    authAccounts,       \* accounts of the authentication provider
    usedIds,            \* auto-ids handed out so far
    \* --- AttendeesPage (teacher client)
    view,               \* 'active' | 'deleted'
    tList,              \* state `attendees` of the page: the fetched list
    tpc,                \* await point the running handler is at
    targ,               \* locals of the running handler
    tResult,            \* what the handler reported (toast / form error)
    \* --- LoginPage (student or teacher signing up / logging in), one per device
    lpc,                \* await point the running handler is at
    larg,               \* locals of the running handler
    lResult,            \* what the handler reported (toast)
    lOps,               \* sign-ups and logins started so far
    authUser,           \* auth.currentUser of the device: the uid signed in, NoDoc for null
    path,               \* the route the device shows
    \* --- document store: attendance ledger
    attendance,         \* collection "attendance": date -> [date, records, summary]
    \* --- MarkAttendancePage, one per teacher client
    mAttendees,         \* state `attendees`: the roster fetched at mount
    attendanceData,     \* state `attendanceData`: attendee id -> [status, note]
    selectedDate,       \* state `selectedDate`
    mLoad,              \* fetch in flight: "unmounted" | "attendees" | "day" | "none"
    mFetch,             \* dates whose fetchAttendanceForDate call is in flight
    mOrigin,            \* per form entry: the date its status was loaded for or chosen under
    mpc,                \* await point of handleSaveAll: "idle" | "save_write"
    mSave,              \* locals of the running handleSaveAll
    mOps,               \* form edits and saves made on the page so far
    mResult,            \* toast of the last save
    \* --- document store: assignment tracker
    assignments,        \* collection "assignments": id -> [statusMap], NoDoc when absent
    submissions,        \* collection "submissions": <<assignmentId, studentId>> -> fields
    \* --- CreateAssignmentPage
    cpc,                \* "idle" | "create_write" | "done"
    cMap,               \* the statusMap built from the roster read
    \* --- TrackAssignmentPage
    \* (each a function of the client showing the page)
    kId,                \* route parameter id, "none" while the page is closed
    kAssignment,        \* state `assignment`: the statusMap last loaded or saved
    kStatusMap,         \* state `statusMap`: the map the table edits
    kpc,                \* "idle" | "fetch" | "sync_save" | "sync_fetch"
    kArg,               \* the map handleSyncAttendees hands to handleSaveChanges
    kOps,               \* UI events handled by the page so far
    kSync,              \* the syncs in a row that are the page's last UI events:
                        \* [run: how many, roster: ids the last one read, wrote: one of them saved]
    \* --- StudentAssignmentsPage
    sId,                \* studentProfile.id, 0 while the page is closed
    sList,              \* state `assignments`: id -> statusMap as fetched
    sSelected,          \* selectedAssignment: its id, "none" when the dialog is closed
    sNote,              \* submissionNote
    spc,                \* "closed" | "fetch" | "idle" | "submit_map"
    sOps,               \* submissions confirmed so far
    sResult,            \* what handleSubmitAssignment reported (toast)
    \* --- ReviewAssignmentsPage
    rpc,                \* "idle" | "grade_map"
    rArg,               \* locals of the running handleSaveReview
    rOps,               \* reviews saved so far
    rResult,            \* what handleSaveReview reported (toast)
    \* --- useAuth (the identity resolver)
    aUser,              \* state `user`: the uid of the principal, NoDoc for null
    aUserProfile,       \* state `userProfile`, NoDoc for null
    aStudentProfile,    \* state `studentProfile`, NoDoc for null
    aLoading,           \* state `loading`
    aCalls,             \* the onAuthStateChanged callbacks started so far, in order:
                        \* [pc: "read_user" | "read_student" | "done" | "failed", user, studentId]
    aEvents,            \* auth-state events delivered so far
    aSeen,              \* principal of the last event delivered
    \* --- AttendanceSummaryPage.processSummary, for one student
    qPresent,           \* number of the student's records with status Present
    qAbsent,            \* ... with status Absent
    qLeave,             \* ... with status Leave
    qSummary            \* the student's row of summaryData, NoDoc before processSummary ran

rosterStore == <<attendees, deleted_attendees, users, authAccounts, usedIds>>
teacherVars == <<view, tList, tpc, targ, tResult>>
loginPage == <<lpc, larg, lResult, lOps>>
loginVars == <<loginPage, authUser, path>>
rosterVars == <<rosterStore, teacherVars, loginVars>>

dayStore == <<attendance>>
dayPage == <<mAttendees, attendanceData, selectedDate, mLoad, mFetch, mOrigin, mpc, mSave, mOps, mResult>>
dayVars == <<dayStore, dayPage>>

trackStore == <<assignments, submissions>>
createPage == <<cpc, cMap>>
trackPage == <<kId, kAssignment, kStatusMap, kpc, kArg, kOps, kSync>>
studentPage == <<sId, sList, sSelected, sNote, spc, sOps, sResult>>
reviewPage == <<rpc, rArg, rOps, rResult>>
trackVars == <<trackStore, createPage, trackPage, studentPage, reviewPage>>

authVars == <<aUser, aUserProfile, aStudentProfile, aLoading, aCalls, aEvents, aSeen>>

summaryVars == <<qPresent, qAbsent, qLeave, qSummary>>

vars == <<rosterVars, dayVars, trackVars, authVars, summaryVars>>

\* what the handlers of the roster pages leave alone
notRoster == <<dayVars, trackVars, authVars, summaryVars>>

\* ------------------------------------------------------------------------
\* Document store helpers
\* ------------------------------------------------------------------------
NoDoc == <<>>

\* setDoc(ref, data) / addDoc: the document k of collection f becomes v
Put(f, k, v) == [x \in (DOMAIN f) \cup {k} |-> IF x = k THEN v ELSE f[x]]

\* deleteDoc(ref): succeeds whether or not the document exists
Remove(f, k) == [x \in (DOMAIN f) \ {k} |-> f[x]]

\* setDoc(ref, data, {merge: true}) on flat data: the fields named in data
\* are replaced, the other fields of the stored document are kept
MergeFields(old, new) ==
    [k \in (DOMAIN old) \cup (DOMAIN new) |-> IF k \in DOMAIN new THEN new[k] ELSE old[k]]

\* query(collection, where("email", "==", e)): ids of the matching documents
QueryByEmail(coll, e) == {i \in DOMAIN coll : coll[i].email = e}

\* snapshot.docs[0]: a query without orderBy returns documents by document id
FirstDoc(S) == CHOOSE i \in S : \A j \in S : i <= j

\* email.split('@')[0]
LocalPart(e) == e[1]

\* a || b on ids (0 stands for an absent / empty id)
OrElse(a, b) == IF a # 0 THEN a ELSE b

\* AttendanceSummaryPage before any record is loaded: no summary row
InitSummaryPage ==
    /\ qPresent = 0
    /\ qAbsent = 0
    /\ qLeave = 0
    /\ qSummary = NoDoc

\* ------------------------------------------------------------------------
\* Init
\* ------------------------------------------------------------------------
InitRoster ==
    /\ attendees = NoDoc
    /\ deleted_attendees = NoDoc
    /\ users = NoDoc
    \* one account exists whose sign-up stopped before its profile was written
    /\ authAccounts = {<<"u2", "x.com">>}
    /\ usedIds = {}
    /\ view = "active"
    /\ tList = NoDoc
    /\ tpc = "idle"
    /\ targ = NoDoc
    /\ tResult = "none"
    /\ lpc = [c \in LoginClients |-> "idle"]
    /\ larg = [c \in LoginClients |-> NoDoc]
    /\ lResult = [c \in LoginClients |-> "none"]
    /\ lOps = [c \in LoginClients |-> 0]
    /\ authUser = [c \in LoginClients |-> NoDoc]
    /\ path = [c \in LoginClients |-> "/login"]
    /\ InitSummaryPage

\* ------------------------------------------------------------------------
\* AttendeesPage: fetchAttendees, handleViewChange
\* ------------------------------------------------------------------------
\* fetchAttendees: the list of the collection the current view shows
FetchAttendees ==
    /\ tpc = "fetch"
    /\ tList' = (IF view = "deleted" THEN deleted_attendees ELSE attendees)
    /\ tpc' = "idle"
    /\ targ' = NoDoc
    /\ UNCHANGED <<view, tResult, rosterStore, loginVars, notRoster>>

\* handleViewChange (and the sort toggle when newView = view): refetch
HandleViewChange(newView) ==
    /\ tpc = "idle"
    /\ view' = newView
    /\ tpc' = "fetch"
    /\ UNCHANGED <<tList, targ, tResult, rosterStore, loginVars, notRoster>>

\* ------------------------------------------------------------------------
\* AttendeeForm.onSubmit: Add and Edit
\* ------------------------------------------------------------------------
\* a faulty uniqueness check: the archive is not consulted
EmailExistsActiveOnly(activeMatch, deletedMatch, isEditing, editId) ==
    IF activeMatch # {}
    THEN (IF isEditing THEN FirstDoc(activeMatch) # editId ELSE TRUE)
    ELSE FALSE

\* the emailExists flag computed from the two query snapshots
EmailExists(activeMatch, deletedMatch, isEditing, editId) ==
    LET fromActive ==
            IF activeMatch # {}
            THEN (IF isEditing THEN FirstDoc(activeMatch) # editId ELSE TRUE)
            ELSE FALSE
    IN  IF deletedMatch # {} THEN TRUE ELSE fromActive

\* Add: the uniqueness check; on a duplicate the form shows the error and
\* nothing is written
AddSubmit(name, email) ==
    /\ tpc = "idle"
    /\ targ' = [id |-> 0, name |-> name, email |-> email]
    /\ IF EmailExists(QueryByEmail(attendees, email),
                      QueryByEmail(deleted_attendees, email), FALSE, 0)
       THEN /\ tResult' = "DuplicateEmail"
            /\ tpc' = "idle"
       ELSE /\ tResult' = "pending"
            /\ tpc' = "add_write"
    /\ UNCHANGED <<view, tList, rosterStore, loginVars, notRoster>>

\* Add: addDoc(collection "attendees", {...data, createdAt})
AddWrite ==
    /\ tpc = "add_write"
    /\ \E id \in Ids \ usedIds :
          /\ attendees' = Put(attendees, id, [name |-> targ.name, email |-> targ.email])
          /\ usedIds' = usedIds \cup {id}
    /\ tResult' = "ok"
    /\ tpc' = "fetch"
    /\ UNCHANGED <<view, tList, targ, deleted_attendees, users, authAccounts, loginVars, notRoster>>

\* Edit: the uniqueness check for the attendee of the list row being edited
EditSubmit(id, name, email) ==
    /\ tpc = "idle"
    /\ view = "active"
    /\ id \in DOMAIN tList
    /\ targ' = [id |-> id, name |-> name, email |-> email]
    /\ IF EmailExists(QueryByEmail(attendees, email),
                      QueryByEmail(deleted_attendees, email), TRUE, id)
       THEN /\ tResult' = "DuplicateEmail"
            /\ tpc' = "idle"
       ELSE /\ tResult' = "pending"
            /\ tpc' = "edit_write"
    /\ UNCHANGED <<view, tList, rosterStore, loginVars, notRoster>>

\* Edit: updateDoc(attendees/id, data); updateDoc fails on a missing document
EditWrite ==
    /\ tpc = "edit_write"
    /\ IF targ.id \in DOMAIN attendees
       THEN /\ attendees' = Put(attendees, targ.id, [name |-> targ.name, email |-> targ.email])
            /\ tResult' = "ok"
            /\ tpc' = "fetch"
       ELSE /\ UNCHANGED attendees
            /\ tResult' = "error"
            /\ tpc' = "idle"
    /\ UNCHANGED <<view, tList, targ, deleted_attendees, users, authAccounts, usedIds, loginVars, notRoster>>

\* ------------------------------------------------------------------------
\* handleSoftDelete
\* ------------------------------------------------------------------------
\* a faulty archive document: the original id is not recorded
ArchivedCopyWithoutOriginalId(id, row) ==
    [name |-> row.name, email |-> row.email, originalId |-> 0, deletedAt |-> "serverTimestamp"]

\* the archive document written for a list row
ArchivedCopy(id, row) ==
    [name |-> row.name, email |-> row.email, originalId |-> id, deletedAt |-> "serverTimestamp"]

\* faulty variant: the handler goes on to the delete without having
\* written the archive copy
SoftDeleteUnarchived(id) ==
    /\ tpc = "idle"
    /\ view = "active"
    /\ id \in DOMAIN tList
    /\ targ' = [id |-> id, name |-> tList[id].name, email |-> tList[id].email]
    /\ tResult' = "pending"
    /\ tpc' = "del_remove"
    /\ UNCHANGED <<view, tList, attendees, deleted_attendees, users, authAccounts, usedIds, loginVars, notRoster>>

\* setDoc(deleted_attendees/id, {...attendee, originalId, deletedAt})
SoftDeleteArchive(id) ==
    /\ tpc = "idle"
    /\ view = "active"
    /\ id \in DOMAIN tList
    /\ targ' = [id |-> id, name |-> tList[id].name, email |-> tList[id].email]
    /\ deleted_attendees' = Put(deleted_attendees, id, ArchivedCopy(id, tList[id]))
    /\ tResult' = "pending"
    /\ tpc' = "del_remove"
    /\ UNCHANGED <<view, tList, attendees, users, authAccounts, usedIds, loginVars, notRoster>>

\* deleteDoc(attendees/id)
SoftDeleteRemove ==
    /\ tpc = "del_remove"
    /\ attendees' = Remove(attendees, targ.id)
    /\ tResult' = "ok"
    /\ tpc' = "fetch"
    /\ UNCHANGED <<view, tList, targ, deleted_attendees, users, authAccounts, usedIds, loginVars, notRoster>>

\* ------------------------------------------------------------------------
\* handleRestore
\* ------------------------------------------------------------------------
\* a faulty restore: the active collection is not checked
RestoreConflictUnchecked(activeMatch) == FALSE

\* handleRestore: `!snapshot.empty`, an active attendee holds the e-mail
RestoreConflict(activeMatch) == activeMatch # {}

\* handleRestore up to its first write: the query of the active collection
RestoreCheck(id) ==
    /\ tpc = "idle"
    /\ view = "deleted"
    /\ id \in DOMAIN tList
    /\ targ' = [id |-> id, name |-> tList[id].name, email |-> tList[id].email,
                originalId |-> tList[id].originalId]
    /\ IF RestoreConflict(QueryByEmail(attendees, tList[id].email))
       THEN /\ tResult' = "DuplicateEmail"
            /\ tpc' = "idle"
       ELSE /\ tResult' = "pending"
            /\ tpc' = "restore_write"
    /\ UNCHANGED <<view, tList, rosterStore, loginVars, notRoster>>

\* the id the attendee is restored under: attendee.originalId || attendee.id
RestoreTarget(row) == OrElse(row.originalId, row.id)

\* setDoc(attendees/<originalId>, {...restoredAttendeeData, createdAt, restoredAt})
RestoreWrite ==
    /\ tpc = "restore_write"
    /\ attendees' = Put(attendees, RestoreTarget(targ), [name |-> targ.name, email |-> targ.email])
    /\ tpc' = "restore_remove"
    /\ UNCHANGED <<view, tList, targ, tResult, deleted_attendees, users, authAccounts, usedIds, loginVars, notRoster>>

\* deleteDoc(deleted_attendees/id)
RestoreRemove ==
    /\ tpc = "restore_remove"
    /\ deleted_attendees' = Remove(deleted_attendees, targ.id)
    /\ tResult' = "ok"
    /\ tpc' = "fetch"
    /\ UNCHANGED <<view, tList, targ, attendees, users, authAccounts, usedIds, loginVars, notRoster>>

\* ------------------------------------------------------------------------
\* LoginPage: handleSignup
\* ------------------------------------------------------------------------
\* the handler of device c moves to await point pc with locals arg, having
\* reported result
LoginStep(c, pc, arg, result) ==
    /\ lpc' = [lpc EXCEPT ![c] = pc]
    /\ larg' = [larg EXCEPT ![c] = arg]
    /\ lResult' = [lResult EXCEPT ![c] = result]

\* createUserWithEmailAndPassword: fails when the account exists, and
\* otherwise signs the new account in on the device
SignupCreate(c, email, role) ==
    /\ lpc[c] = "idle"
    /\ path[c] = "/login"
    /\ lOps[c] < MaxLoginOps
    /\ lOps' = [lOps EXCEPT ![c] = @ + 1]
    /\ IF email \in authAccounts
       THEN /\ LoginStep(c, "idle", NoDoc, "SignupFailed")
            /\ UNCHANGED <<authAccounts, authUser>>
       ELSE /\ authAccounts' = authAccounts \cup {email}
            /\ authUser' = [authUser EXCEPT ![c] = email]
            /\ LoginStep(c, IF role = "student" THEN "su_query" ELSE "su_teacher",
                         [email |-> email, role |-> role, studentId |-> 0], "pending")
    /\ UNCHANGED <<attendees, deleted_attendees, users, usedIds, path, teacherVars, notRoster>>

\* the attendee the account is linked to, or the decision to create one
SignupQuery(c) ==
    /\ lpc[c] = "su_query"
    /\ LET match == QueryByEmail(attendees, larg[c].email)
       IN  IF match # {}
           THEN LoginStep(c, "su_profile", [larg[c] EXCEPT !.studentId = FirstDoc(match)], lResult[c])
           ELSE LoginStep(c, "su_add", larg[c], lResult[c])
    /\ UNCHANGED <<rosterStore, lOps, authUser, path, teacherVars, notRoster>>

\* addDoc(collection "attendees", {email, name: email.split('@')[0], createdAt})
SignupAdd(c) ==
    /\ lpc[c] = "su_add"
    /\ \E id \in Ids \ usedIds :
          /\ attendees' = Put(attendees, id, [name |-> LocalPart(larg[c].email), email |-> larg[c].email])
          /\ usedIds' = usedIds \cup {id}
          /\ LoginStep(c, "su_profile", [larg[c] EXCEPT !.studentId = id], lResult[c])
    /\ UNCHANGED <<deleted_attendees, users, authAccounts, lOps, authUser, path, teacherVars, notRoster>>

\* the user profile a student signup or a self-healing login writes
StudentProfile(email, studentId) ==
    [email |-> email, role |-> "student", studentId |-> studentId]

\* the user profile a teacher signup writes
TeacherProfile(email) == [email |-> email, role |-> "teacher"]

\* the stored profile of uid, NoDoc when there is none
UserDoc(uid) == IF uid \in DOMAIN users THEN users[uid] ELSE NoDoc

\* setDoc(users/uid, {email, role: "student", studentId, createdAt}, {merge: true});
\* router.push('/student')
SignupProfile(c) ==
    /\ lpc[c] = "su_profile"
    /\ users' = Put(users, larg[c].email,
                    MergeFields(UserDoc(larg[c].email), StudentProfile(larg[c].email, larg[c].studentId)))
    /\ LoginStep(c, "idle", NoDoc, "AccountCreated")
    /\ path' = [path EXCEPT ![c] = "/student"]
    /\ UNCHANGED <<attendees, deleted_attendees, authAccounts, usedIds, lOps, authUser, teacherVars, notRoster>>

\* setDoc(users/uid, {email, role: "teacher", createdAt}, {merge: true});
\* router.push('/')
SignupTeacherProfile(c) ==
    /\ lpc[c] = "su_teacher"
    /\ users' = Put(users, larg[c].email,
                    MergeFields(UserDoc(larg[c].email), TeacherProfile(larg[c].email)))
    /\ LoginStep(c, "idle", NoDoc, "AccountCreated")
    /\ path' = [path EXCEPT ![c] = "/"]
    /\ UNCHANGED <<attendees, deleted_attendees, authAccounts, usedIds, lOps, authUser, teacherVars, notRoster>>

\* an awaited store call of the signup rejects: the catch block reports
\* "Signup Failed" and the account stays without the writes not yet made
SignupFail(c) ==
    /\ lpc[c] \in {"su_query", "su_add", "su_profile", "su_teacher"}
    /\ LoginStep(c, "idle", NoDoc, "SignupFailed")
    /\ UNCHANGED <<rosterStore, lOps, authUser, path, teacherVars, notRoster>>

\* ------------------------------------------------------------------------
\* LoginPage: handleLogin
\* ------------------------------------------------------------------------
\* signInWithEmailAndPassword: signs the account in on the device
LoginSignIn(c, email, role) ==
    /\ lpc[c] = "idle"
    /\ path[c] = "/login"
    /\ lOps[c] < MaxLoginOps
    /\ lOps' = [lOps EXCEPT ![c] = @ + 1]
    /\ IF email \in authAccounts
       THEN /\ LoginStep(c, "li_getdoc", [email |-> email, role |-> role, studentId |-> 0], "pending")
            /\ authUser' = [authUser EXCEPT ![c] = email]
       ELSE /\ LoginStep(c, "idle", NoDoc, "LoginFailed")
            /\ UNCHANGED authUser
    /\ UNCHANGED <<rosterStore, path, teacherVars, notRoster>>

\* the self-healing condition of a student login
NeedsHealing(userDoc) ==
    \/ userDoc = NoDoc
    \/ "studentId" \notin DOMAIN userDoc
    \/ userDoc.studentId = 0

\* getDoc(users/uid) and the role checks: NOT_STUDENT and NOT_TEACHER end in
\* the catch block, which reports "Login Failed"; a student in order and a
\* teacher are sent to their pages
LoginGetDoc(c) ==
    /\ lpc[c] = "li_getdoc"
    /\ LET userDoc == UserDoc(larg[c].email)
       IN  IF larg[c].role = "student"
           THEN IF userDoc # NoDoc /\ userDoc.role = "teacher"
                THEN /\ LoginStep(c, "idle", NoDoc, "LoginFailed")
                     /\ UNCHANGED path
                ELSE IF NeedsHealing(userDoc)
                     THEN /\ LoginStep(c, "li_query", larg[c], lResult[c])
                          /\ UNCHANGED path
                     ELSE /\ LoginStep(c, "idle", NoDoc, "ok")
                          /\ path' = [path EXCEPT ![c] = "/student"]
           ELSE IF userDoc = NoDoc \/ userDoc.role # "teacher"
                THEN /\ LoginStep(c, "idle", NoDoc, "LoginFailed")
                     /\ UNCHANGED path
                ELSE /\ LoginStep(c, "idle", NoDoc, "ok")
                     /\ path' = [path EXCEPT ![c] = "/"]
    /\ UNCHANGED <<rosterStore, lOps, authUser, teacherVars, notRoster>>

\* self-healing: the attendee with the account's e-mail, if any
LoginQuery(c) ==
    /\ lpc[c] = "li_query"
    /\ LET match == QueryByEmail(attendees, larg[c].email)
       IN  IF match # {}
           THEN LoginStep(c, "li_profile", [larg[c] EXCEPT !.studentId = FirstDoc(match)], lResult[c])
           ELSE LoginStep(c, "li_add", larg[c], lResult[c])
    /\ UNCHANGED <<rosterStore, lOps, authUser, path, teacherVars, notRoster>>

\* self-healing: addDoc(collection "attendees", {email, name: defaultName, createdAt})
LoginAdd(c) ==
    /\ lpc[c] = "li_add"
    /\ \E id \in Ids \ usedIds :
          /\ attendees' = Put(attendees, id, [name |-> LocalPart(larg[c].email), email |-> larg[c].email])
          /\ usedIds' = usedIds \cup {id}
          /\ LoginStep(c, "li_profile", [larg[c] EXCEPT !.studentId = id], lResult[c])
    /\ UNCHANGED <<deleted_attendees, users, authAccounts, lOps, authUser, path, teacherVars, notRoster>>

\* self-healing: setDoc(users/uid, {email, role: "student", studentId, createdAt}, {merge: true});
\* router.push("/student")
LoginProfile(c) ==
    /\ lpc[c] = "li_profile"
    /\ users' = Put(users, larg[c].email,
                    MergeFields(UserDoc(larg[c].email), StudentProfile(larg[c].email, larg[c].studentId)))
    /\ LoginStep(c, "idle", NoDoc, "ok")
    /\ path' = [path EXCEPT ![c] = "/student"]
    /\ UNCHANGED <<attendees, deleted_attendees, authAccounts, usedIds, lOps, authUser, teacherVars, notRoster>>

\* the login page of one device
LoginPageNext(c) ==
    \/ \E e \in Emails, r \in Roles : SignupCreate(c, e, r)
    \/ SignupQuery(c)
    \/ SignupAdd(c)
    \/ SignupProfile(c)
    \/ SignupTeacherProfile(c)
    \/ SignupFail(c)
    \/ \E e \in Emails, r \in Roles : LoginSignIn(c, e, r)
    \/ LoginGetDoc(c)
    \/ LoginQuery(c)
    \/ LoginAdd(c)
    \/ LoginProfile(c)

\* ------------------------------------------------------------------------
\* useAuth: the onAuthStateChanged callback
\* ------------------------------------------------------------------------
\* auth-state events delivered to the hook
MaxAuthEvents == 2

\* no auth-state event has been delivered yet
Unseen == <<"unseen">>

\* useState initial values: nothing resolved, loading
InitAuth ==
    /\ aSeen = Unseen
    /\ aUser = NoDoc
    /\ aUserProfile = NoDoc
    /\ aStudentProfile = NoDoc
    /\ aLoading = TRUE
    /\ aCalls = <<>>
    /\ aEvents = 0

\* userProfile?.role || null
UserRole(profile) == IF profile = NoDoc THEN NoDoc ELSE profile.role

\* profile.role === 'student' && profile.studentId
HasStudentLink(profile) ==
    /\ profile.role = "student"
    /\ "studentId" \in DOMAIN profile
    /\ profile.studentId # 0

\* faulty variant: a broken link yields a profile built from the id alone
ResolvedStudentUnchecked(roster, sid) ==
    IF sid \in DOMAIN roster
    THEN [id |-> sid, name |-> roster[sid].name, email |-> roster[sid].email]
    ELSE [id |-> sid]

\* studentDocSnap.exists() ? { id, ...data } : null
ResolvedStudent(roster, sid) ==
    IF sid \in DOMAIN roster
    THEN [id |-> sid, name |-> roster[sid].name, email |-> roster[sid].email]
    ELSE NoDoc

\* the principals the auth provider reports: an account, or null (signed out)
Principals == authAccounts \cup {NoDoc}

\* a callback is waiting for a read
InFlight(call) == call.pc \in {"read_user", "read_student"}

\* the callback up to its first await: setLoading(true), then either
\* setUser(user) and the read of users/uid starts, or (signed out)
\* everything is set to null and loading ends
AuthStateChanged(p) ==
    /\ p \in Principals
    /\ aEvents < MaxAuthEvents
    /\ aEvents' = aEvents + 1
    /\ aSeen' = p
    /\ IF p # NoDoc
       THEN /\ aUser' = p
            /\ aLoading' = TRUE
            /\ aCalls' = Append(aCalls, [pc |-> "read_user", user |-> p, studentId |-> 0])
            /\ UNCHANGED <<aUserProfile, aStudentProfile>>
       ELSE /\ aUser' = NoDoc
            /\ aUserProfile' = NoDoc
            /\ aStudentProfile' = NoDoc
            /\ aLoading' = FALSE
            /\ aCalls' = Append(aCalls, [pc |-> "done", user |-> NoDoc, studentId |-> 0])
    /\ UNCHANGED <<rosterVars, dayVars, trackVars, summaryVars>>

\* an event delivered while no earlier callback is waiting for a read
SerialAuthStateChanged(p) ==
    /\ \A n \in DOMAIN aCalls : ~InFlight(aCalls[n])
    /\ AuthStateChanged(p)

\* getDoc(users/uid) resolves: the profile is stored in the state and the
\* read of the linked attendee starts, or the callback ends
ResolveUserDoc(n) ==
    /\ n \in DOMAIN aCalls
    /\ aCalls[n].pc = "read_user"
    /\ LET profile == UserDoc(aCalls[n].user)
       IN  IF profile # NoDoc
           THEN /\ aUserProfile' = profile
                /\ IF HasStudentLink(profile)
                   THEN /\ aCalls' = [aCalls EXCEPT ![n].pc = "read_student",
                                                    ![n].studentId = profile.studentId]
                        /\ UNCHANGED <<aStudentProfile, aLoading>>
                   ELSE /\ aStudentProfile' = NoDoc
                        /\ aLoading' = FALSE
                        /\ aCalls' = [aCalls EXCEPT ![n].pc = "done"]
                /\ UNCHANGED aUser
           ELSE /\ aUserProfile' = NoDoc
                /\ aStudentProfile' = NoDoc
                /\ aUser' = NoDoc
                /\ aLoading' = FALSE
                /\ aCalls' = [aCalls EXCEPT ![n].pc = "done"]
    /\ UNCHANGED <<aEvents, aSeen, rosterVars, dayVars, trackVars, summaryVars>>

\* getDoc(attendees/studentId) resolves
ResolveStudentDoc(n) ==
    /\ n \in DOMAIN aCalls
    /\ aCalls[n].pc = "read_student"
    /\ aStudentProfile' = ResolvedStudent(attendees, aCalls[n].studentId)
    /\ aLoading' = FALSE
    /\ aCalls' = [aCalls EXCEPT ![n].pc = "done"]
    /\ UNCHANGED <<aUser, aUserProfile, aEvents, aSeen, rosterVars, dayVars, trackVars, summaryVars>>

\* a getDoc of the callback rejects: the callback has no try/catch, its
\* promise rejects and none of the statements after the await runs
ResolveFail(n) ==
    /\ n \in DOMAIN aCalls
    /\ InFlight(aCalls[n])
    /\ aCalls' = [aCalls EXCEPT ![n].pc = "failed"]
    /\ UNCHANGED <<aUser, aUserProfile, aStudentProfile, aLoading, aEvents, aSeen,
                   rosterVars, dayVars, trackVars, summaryVars>>

\* the callbacks run one auth-state event at a time
AuthSerialNext ==
    \/ \E p \in Emails \cup {NoDoc} : SerialAuthStateChanged(p)
    \/ \E n \in 1..MaxAuthEvents : ResolveUserDoc(n)
    \/ \E n \in 1..MaxAuthEvents : ResolveStudentDoc(n)
    \/ \E n \in 1..MaxAuthEvents : ResolveFail(n)

\* the callbacks as the hook runs them: an event is handled when it
\* arrives, whatever the earlier callbacks are waiting for
AuthNext ==
    \/ \E p \in Emails \cup {NoDoc} : AuthStateChanged(p)
    \/ \E n \in 1..MaxAuthEvents : ResolveUserDoc(n)
    \/ \E n \in 1..MaxAuthEvents : ResolveStudentDoc(n)
    \/ \E n \in 1..MaxAuthEvents : ResolveFail(n)

\* ------------------------------------------------------------------------
\* One browser session: LoginPage under AuthGuard
\* ------------------------------------------------------------------------
\* the device whose hook and route guard are followed
Device == "p1"

\* the auth provider reports the device's current principal to the hook
\* when it differs from the one last reported
AuthNotify ==
    /\ aSeen # authUser[Device]
    /\ AuthStateChanged(authUser[Device])

\* the route the guard's effect replaces pathname with (pathname itself
\* when the effect leaves the route alone)
GuardTarget(pathname, user, userRole) ==
    IF user # NoDoc /\ pathname = "/login"
    THEN IF userRole = "teacher" THEN "/" ELSE "/student"
    ELSE IF user = NoDoc /\ pathname # "/login"
    THEN "/login"
    ELSE IF user # NoDoc /\ userRole = "student" /\ pathname = "/"
    THEN "/student"
    ELSE IF user # NoDoc /\ userRole = "teacher" /\ pathname = "/student"
    THEN "/"
    ELSE pathname

\* the effect of AuthGuard: once loading has ended, a redirect
AuthGuard ==
    /\ ~aLoading
    /\ GuardTarget(path[Device], aUser, UserRole(aUserProfile)) # path[Device]
    /\ path' = [path EXCEPT ![Device] = GuardTarget(path[Device], aUser, UserRole(aUserProfile))]
    /\ UNCHANGED <<rosterStore, teacherVars, loginPage, authUser, authVars, dayVars, trackVars, summaryVars>>

\* the login page, the hook's callbacks and the guard of the device
NextSession ==
    \/ LoginPageNext(Device)
    \/ AuthNotify
    \/ \E n \in 1..MaxAuthEvents : ResolveUserDoc(n)
    \/ \E n \in 1..MaxAuthEvents : ResolveStudentDoc(n)
    \/ AuthGuard

\* ------------------------------------------------------------------------
\* AttendanceSummaryPage.processSummary
\* ------------------------------------------------------------------------
\* records of one student in the period shown, by status
MaxPresent == 23
MaxAbsent == 17
MaxLeave == 1

\* A JavaScript number is an IEEE 754 binary64: 53 significant bits and a
\* binary exponent. A positive number is [h, m, l, e]: its significant bits
\* in three limbs, h the leading 17 (2^16 <= h < 2^17), m and l the next 18
\* each, and e the exponent of the last bit: the value is
\* (h * 2^36 + m * 2^18 + l) * 2^e. Zero is all zeros.
Limb == 262144

\* 2^16: the least leading limb; the leading limb is below twice this
TopLimb == 65536

Zero == [h |-> 0, m |-> 0, l |-> 0, e |-> 0]

RECURSIVE Pow2(_)
Pow2(n) == IF n = 0 THEN 1 ELSE 2 * Pow2(n - 1)

\* round to nearest, ties to even: [h, m, l] are the bits kept, guard the
\* first bit dropped, sticky whether a one follows it; up is 1 when the
\* rounding carried into a new leading bit
RoundNearestEven(h, m, l, guard, sticky) ==
    IF guard /\ (sticky \/ l % 2 = 1)
    THEN LET l1 == (l + 1) % Limb
             m1 == IF l1 = 0 THEN (m + 1) % Limb ELSE m
             h1 == IF l1 = 0 /\ m1 = 0 THEN h + 1 ELSE h
         IN  IF h1 = 2 * TopLimb
             THEN [h |-> TopLimb, m |-> 0, l |-> 0, up |-> 1]
             ELSE [h |-> h1, m |-> m1, l |-> l1, up |-> 0]
    ELSE [h |-> h, m |-> m, l |-> l, up |-> 0]

\* the least s with p * 2^s >= d
RECURSIVE ShiftUp(_, _)
ShiftUp(p, d) == IF p >= d THEN 0 ELSE 1 + ShiftUp(2 * p, d)

\* p / d in floating point, for integers 0 <= p <= d, 0 < d < 2^12: long
\* division of p * 2^s (between d and 2d) by d, limb by limb, then rounding
DoubleDiv(p, d) ==
    IF p = 0 THEN Zero
    ELSE LET s      == ShiftUp(p, d)
             n      == p * Pow2(s)
             h      == (n * TopLimb) \div d
             r1     == (n * TopLimb) % d
             m      == (r1 * Limb) \div d
             r2     == (r1 * Limb) % d
             l      == (r2 * Limb) \div d
             r3     == (r2 * Limb) % d
             guard  == 2 * r3 >= d
             sticky == (2 * r3) % d # 0
             r      == RoundNearestEven(h, m, l, guard, sticky)
         IN  [h |-> r.h, m |-> r.m, l |-> r.l, e |-> r.up - s - 52]

\* x * k in floating point, for an integer 1 <= k < 2^7: the exact product
\* limb by limb, then the bits beyond the 53rd are rounded away
DoubleMul(x, k) ==
    IF x.h = 0 THEN Zero
    ELSE LET p0      == (x.l * k) % Limb
             c0      == (x.l * k) \div Limb
             p1      == (x.m * k + c0) % Limb
             c1      == (x.m * k + c0) \div Limb
             p2      == x.h * k + c1
             dropped == CHOOSE t \in 0..7 : TopLimb * Pow2(t) <= p2 /\ p2 < 2 * TopLimb * Pow2(t)
             cut     == Pow2(dropped)
             up18    == Limb \div cut
             h       == p2 \div cut
             m       == (p1 \div cut) + (p2 % cut) * up18
             l       == (p0 \div cut) + (p1 % cut) * up18
             guard   == dropped >= 1 /\ (p0 % cut) \div (cut \div 2) = 1
             sticky  == dropped >= 1 /\ (p0 % cut) % (cut \div 2) # 0
             r       == RoundNearestEven(h, m, l, guard, sticky)
         IN  [h |-> r.h, m |-> r.m, l |-> r.l, e |-> x.e + dropped + r.up]

\* Math.round(x) for 0 <= x < 2^16: the integer part, plus one when the
\* fraction is 1/2 or more; the integer part lies within the leading limb
MathRound(x) ==
    IF x.h = 0 THEN 0
    ELSE LET intBits == 53 + x.e
         IN  IF intBits < 0 THEN 0
             ELSE IF intBits = 0 THEN 1
             ELSE LET below == Pow2(17 - intBits)
                  IN  (x.h \div below) + ((x.h % below) \div (below \div 2))

\* denominator > 0 ? Math.round((present / denominator) * 100) : 0
AttendancePercentage(present, absent, leave) ==
    LET denominator == present + absent + leave
    IN  IF denominator > 0
        THEN MathRound(DoubleMul(DoubleDiv(present, denominator), 100))
        ELSE 0

\* processSummary: the row of one student
ProcessSummary ==
    /\ qSummary = NoDoc
    /\ qSummary' = [present |-> qPresent, absent |-> qAbsent, leave |-> qLeave,
                    total |-> qPresent + qAbsent + qLeave,
                    attendancePercentage |-> AttendancePercentage(qPresent, qAbsent, qLeave)]
    /\ UNCHANGED <<qPresent, qAbsent, qLeave, rosterVars, dayVars, trackVars, authVars>>

\* ------------------------------------------------------------------------
\* Roster specification
\* ------------------------------------------------------------------------
TeacherNext ==
    \/ FetchAttendees
    \/ \E v \in {"active", "deleted"} : HandleViewChange(v)
    \/ \E n \in Names, e \in Emails : AddSubmit(n, e)
    \/ AddWrite
    \/ \E i \in Ids, n \in Names, e \in Emails : EditSubmit(i, n, e)
    \/ EditWrite
    \/ \E i \in Ids : SoftDeleteArchive(i)
    \/ SoftDeleteRemove
    \/ \E i \in Ids : RestoreCheck(i)
    \/ RestoreWrite
    \/ RestoreRemove

LoginNext == LoginPageNext("p1")

\* handleSoftDelete, handleRestore: the deleteDoc that follows the setDoc
\* rejects; the catch block reports the error and the handler ends
RemoveFail ==
    /\ tpc \in {"del_remove", "restore_remove"}
    /\ tResult' = "error"
    /\ tpc' = "idle"
    /\ UNCHANGED <<view, tList, targ, rosterStore, loginVars, notRoster>>

\* the Manage Attendees page with failing deletes
NextArchive == TeacherNext \/ RemoveFail

\* ------------------------------------------------------------------------
\* Attendance ledger: bounds and helpers
\* ------------------------------------------------------------------------
\* teacher clients that have the Mark Attendance page open
DayClients == {"c1", "c2"}

\* calendar days, as the document keys format(selectedDate, "yyyy-MM-dd")
Dates == {"d1", "d2"}

\* attendanceStatuses
Statuses == {"Present", "Absent", "Leave"}

\* texts typed into the note field
NoteInputs == {"late"}

\* form edits and saves one page makes
MaxDayOps == 2

\* the empty map {}
EmptyMap == <<>>

\* existingDocSnap.exists() ? existingDocSnap.data().records || {} : {}
ExistingRecords(doc) == IF doc = NoDoc THEN EmptyMap ELSE doc.records

\* attendanceData[id]?.status is set (a non-empty string)
HasStatus(form, id) == id \in DOMAIN form /\ form[id].status # ""

\* the form built by fetchAttendanceForDate from the stored records
LoadedForm(doc) ==
    LET recs == ExistingRecords(doc)
    IN  [id \in DOMAIN recs |-> [status |-> recs[id].status, note |-> recs[id].note]]

\* faulty variant: the payload holds this save's edits only, and an attendee
\* who left the roster is dropped from it
MergedRecordsRosterOnly(existing, roster, form, dateStr) ==
    LET marked == {id \in DOMAIN roster : HasStatus(form, id)}
    IN  [id \in ((DOMAIN existing) \cap (DOMAIN roster)) \cup marked |->
            IF id \in marked
            THEN [studentId |-> id, date |-> dateStr,
                  status |-> form[id].status, note |-> form[id].note]
            ELSE existing[id]]

\* handleSaveAll: the existing records overlaid with one record per attendee
\* of the page that has a status chosen
MergedRecords(existing, roster, form, dateStr) ==
    LET marked == {id \in DOMAIN roster : HasStatus(form, id)}
    IN  [id \in (DOMAIN existing) \cup marked |->
            IF id \in marked
            THEN [studentId |-> id, date |-> dateStr,
                  status |-> form[id].status, note |-> form[id].note]
            ELSE existing[id]]

\* number of records with the given status
CountStatus(records, st) == Cardinality({id \in DOMAIN records : records[id].status = st})

\* a faulty recount: Leave is counted as Absent
ComputeSummaryLeaveAsAbsent(records) ==
    [present |-> CountStatus(records, "Present"),
     absent  |-> CountStatus(records, "Absent") + CountStatus(records, "Leave"),
     leave   |-> 0,
     total   |-> Cardinality(DOMAIN records)]

\* handleSaveAll: the summary recounted over the merged records
ComputeSummary(records) ==
    [present |-> CountStatus(records, "Present"),
     absent  |-> CountStatus(records, "Absent"),
     leave   |-> CountStatus(records, "Leave"),
     total   |-> Cardinality(DOMAIN records)]

\* setDoc(..., {merge: true}) on a map field: every leaf field of the data
\* is written and the stored keys the data does not name are kept; an empty
\* map in the data is a leaf itself and replaces the stored map
MergeMap(old, new) ==
    IF new = EmptyMap
    THEN EmptyMap
    ELSE [id \in (DOMAIN old) \cup (DOMAIN new) |->
            IF id \in DOMAIN new
            THEN (IF id \in DOMAIN old THEN MergeFields(old[id], new[id]) ELSE new[id])
            ELSE old[id]]

\* faulty variant: a record already stored is not written again
SetDocMergeKeepingStored(stored, payload) ==
    IF stored = NoDoc
    THEN payload
    ELSE [date    |-> payload.date,
          records |-> [id \in (DOMAIN stored.records) \cup (DOMAIN payload.records) |->
                          IF id \in DOMAIN stored.records THEN stored.records[id]
                          ELSE payload.records[id]],
          summary |-> MergeFields(stored.summary, payload.summary)]

\* setDoc(docRef, {date, records, summary}, {merge: true})
SetDocMerge(stored, payload) ==
    IF stored = NoDoc
    THEN payload
    ELSE [date    |-> payload.date,
          records |-> MergeMap(stored.records, payload.records),
          summary |-> MergeFields(stored.summary, payload.summary)]

InitDayPages ==
    /\ attendance = [d \in Dates |-> NoDoc]
    /\ mAttendees = [c \in DayClients |-> EmptyMap]
    /\ attendanceData = [c \in DayClients |-> EmptyMap]
    /\ selectedDate = [c \in DayClients |-> CHOOSE d \in Dates : TRUE]
    /\ mLoad = [c \in DayClients |-> "unmounted"]
    /\ mFetch = [c \in DayClients |-> {}]
    /\ mOrigin = [c \in DayClients |-> EmptyMap]
    /\ mpc = [c \in DayClients |-> "idle"]
    /\ mSave = [c \in DayClients |-> NoDoc]
    /\ mOps = [c \in DayClients |-> 0]
    /\ mResult = [c \in DayClients |-> "none"]

\* ------------------------------------------------------------------------
\* MarkAttendancePage
\* ------------------------------------------------------------------------
\* the page is opened (or opened again): fresh state, fetchAllAttendees starts
MountDayPage(c) ==
    /\ mpc[c] = "idle"
    /\ mAttendees' = [mAttendees EXCEPT ![c] = EmptyMap]
    /\ attendanceData' = [attendanceData EXCEPT ![c] = EmptyMap]
    /\ mLoad' = [mLoad EXCEPT ![c] = "attendees"]
    /\ mFetch' = [mFetch EXCEPT ![c] = {}]
    /\ mOrigin' = [mOrigin EXCEPT ![c] = EmptyMap]
    /\ mResult' = [mResult EXCEPT ![c] = "none"]
    /\ selectedDate' = [selectedDate EXCEPT ![c] = CHOOSE d \in Dates : TRUE]
    /\ UNCHANGED <<mpc, mSave, mOps, dayStore, rosterVars, trackVars, authVars, summaryVars>>

\* fetchAllAttendees; the effect on [selectedDate, attendees] then starts
\* fetchAttendanceForDate when the roster is not empty
FetchAllAttendees(c) ==
    /\ mLoad[c] = "attendees"
    /\ mAttendees' = [mAttendees EXCEPT ![c] = attendees]
    /\ mLoad' = [mLoad EXCEPT ![c] = IF DOMAIN attendees # {} THEN "day" ELSE "none"]
    /\ mFetch' = [mFetch EXCEPT ![c] = IF DOMAIN attendees # {} THEN @ \cup {selectedDate[c]} ELSE @]
    /\ UNCHANGED <<attendanceData, selectedDate, mOrigin, mpc, mSave, mOps, mResult, dayStore, rosterVars, trackVars, authVars, summaryVars>>

\* fetchAttendanceForDate: a call in flight resolves; it read the document
\* of the date that was selected when it started, and it is not cancelled
\* when the date changes
FetchAttendanceForDate(c) ==
    /\ \E d \in mFetch[c] :
          /\ attendanceData' = [attendanceData EXCEPT ![c] = LoadedForm(attendance[d])]
          /\ mOrigin' = [mOrigin EXCEPT ![c] = [id \in DOMAIN LoadedForm(attendance[d]) |-> d]]
          /\ mFetch' = [mFetch EXCEPT ![c] = @ \ {d}]
    /\ mLoad' = [mLoad EXCEPT ![c] = "none"]
    /\ UNCHANGED <<mAttendees, selectedDate, mpc, mSave, mOps, mResult, dayStore, rosterVars, trackVars, authVars, summaryVars>>

\* the form entry after handleAttendanceChange(attendeeId, key, value)
ChangedEntry(form, id, key, value) ==
    LET prev == IF id \in DOMAIN form THEN form[id] ELSE [status |-> "Present", note |-> ""]
    IN  [prev EXCEPT ![key] = value]

\* handleAttendanceChange: a radio button or the note field of a table row
\* (the rows are rendered only while nothing is loading)
HandleAttendanceChange(c, id, key, value) ==
    /\ mLoad[c] = "none"
    /\ id \in DOMAIN mAttendees[c]
    /\ mOps[c] < MaxDayOps
    /\ attendanceData' = [attendanceData EXCEPT
                            ![c] = Put(@, id, ChangedEntry(@, id, key, value))]
    /\ mOrigin' = [mOrigin EXCEPT
                      ![c] = IF key = "status" \/ id \notin DOMAIN @
                             THEN Put(@, id, selectedDate[c])
                             ELSE @]
    /\ mOps' = [mOps EXCEPT ![c] = @ + 1]
    /\ UNCHANGED <<mAttendees, selectedDate, mLoad, mFetch, mpc, mSave, mResult, dayStore, rosterVars, trackVars, authVars, summaryVars>>

\* handleClearSelections (button disabled while saving)
HandleClearSelections(c) ==
    /\ mLoad[c] # "unmounted"
    /\ mpc[c] = "idle"
    /\ mOps[c] < MaxDayOps
    /\ attendanceData' = [attendanceData EXCEPT ![c] = EmptyMap]
    /\ mOrigin' = [mOrigin EXCEPT ![c] = EmptyMap]
    /\ mOps' = [mOps EXCEPT ![c] = @ + 1]
    /\ UNCHANGED <<mAttendees, selectedDate, mLoad, mFetch, mpc, mSave, mResult, dayStore, rosterVars, trackVars, authVars, summaryVars>>

\* handleMarkAll(status) (button disabled while saving)
HandleMarkAll(c, status) ==
    /\ mLoad[c] # "unmounted"
    /\ mpc[c] = "idle"
    /\ mOps[c] < MaxDayOps
    /\ attendanceData' = [attendanceData EXCEPT ![c] =
            [id \in DOMAIN mAttendees[c] |->
                [status |-> status,
                 note |-> IF id \in DOMAIN @ THEN @[id].note ELSE ""]]]
    /\ mOrigin' = [mOrigin EXCEPT ![c] = [id \in DOMAIN mAttendees[c] |-> selectedDate[c]]]
    /\ mOps' = [mOps EXCEPT ![c] = @ + 1]
    /\ UNCHANGED <<mAttendees, selectedDate, mLoad, mFetch, mpc, mSave, mResult, dayStore, rosterVars, trackVars, authVars, summaryVars>>

\* handleSaveAll up to its write: getDoc of the day document, the merge of
\* the form into the records read, the recount
SaveRead(c) ==
    /\ mLoad[c] # "unmounted"
    /\ mpc[c] = "idle"
    /\ mOps[c] < MaxDayOps
    /\ LET dateStr == selectedDate[c]
           existing == ExistingRecords(attendance[dateStr])
           records == MergedRecords(existing, mAttendees[c], attendanceData[c], dateStr)
       IN  mSave' = [mSave EXCEPT ![c] =
                        [existing |-> existing,
                         payload |-> [date |-> dateStr, records |-> records,
                                      summary |-> ComputeSummary(records)]]]
    /\ mpc' = [mpc EXCEPT ![c] = "save_write"]
    /\ mOps' = [mOps EXCEPT ![c] = @ + 1]
    /\ mResult' = [mResult EXCEPT ![c] = "none"]
    /\ UNCHANGED <<mAttendees, attendanceData, selectedDate, mLoad, mFetch, mOrigin, dayStore, rosterVars, trackVars, authVars, summaryVars>>

\* handleSaveAll: setDoc(docRef, docPayload, {merge: true})
SaveWrite(c) ==
    /\ mpc[c] = "save_write"
    /\ attendance' = [attendance EXCEPT ![mSave[c].payload.date] = SetDocMerge(@, mSave[c].payload)]
    /\ mpc' = [mpc EXCEPT ![c] = "idle"]
    /\ mSave' = [mSave EXCEPT ![c] = NoDoc]
    /\ mResult' = [mResult EXCEPT ![c] = "saved"]
    /\ UNCHANGED <<mAttendees, attendanceData, selectedDate, mLoad, mFetch, mOrigin, mOps, rosterVars, trackVars, authVars, summaryVars>>

\* Calendar onSelect: setSelectedDate; the effect on [selectedDate,
\* attendees] starts fetchAttendanceForDate for the new date when the
\* roster is not empty, while the calls already in flight go on
SelectDate(c, d) ==
    /\ mLoad[c] # "unmounted"
    /\ d # selectedDate[c]
    /\ mOps[c] < MaxDayOps
    /\ selectedDate' = [selectedDate EXCEPT ![c] = d]
    /\ IF DOMAIN mAttendees[c] # {}
       THEN /\ mFetch' = [mFetch EXCEPT ![c] = @ \cup {d}]
            /\ mLoad' = [mLoad EXCEPT ![c] = "day"]
       ELSE UNCHANGED <<mFetch, mLoad>>
    /\ mOps' = [mOps EXCEPT ![c] = @ + 1]
    /\ UNCHANGED <<mAttendees, attendanceData, mOrigin, mpc, mSave, mResult, dayStore, rosterVars, trackVars, authVars, summaryVars>>

\* the attendance page of one teacher
DayPageNext(c) ==
    \/ MountDayPage(c)
    \/ FetchAllAttendees(c)
    \/ FetchAttendanceForDate(c)
    \/ \E id \in Ids, st \in Statuses : HandleAttendanceChange(c, id, "status", st)
    \/ \E id \in Ids, n \in NoteInputs : HandleAttendanceChange(c, id, "note", n)
    \/ HandleClearSelections(c)
    \/ HandleMarkAll(c, "Present")
    \/ SaveRead(c)
    \/ SaveWrite(c)

DayNext == \E c \in DayClients : DayPageNext(c)

\* ------------------------------------------------------------------------
\* Assignment tracker: bounds and helpers
\* ------------------------------------------------------------------------
\* ids addDoc hands out for assignments
AssignmentIds == {"a1"}

\* browser pages showing TrackAssignmentPage (teachers, or tabs of one)
TrackClients == {"t1", "t2"}

\* assignmentStatuses
AssignStatuses == {"Assigned", "Submitted", "Graded"}

\* grades, notes and feedback texts typed into the forms
GradeInputs == {"A"}
NoteTexts == {"n"}
FeedbackInputs == {"good"}

\* UI events one TrackAssignmentPage handles
MaxTrackOps == 3

\* submissions a student confirms
MaxSubmits == 2

\* reviews a teacher saves
MaxGrades == 1

\* kSync when the last UI event of the page was not a sync
NoSync == [run |-> 0, roster |-> {}, wrote |-> FALSE]

\* the entry Create and Sync write for an attendee
NewEntry(id) == [studentId |-> id, status |-> "Assigned", grade |-> "", note |-> ""]

\* a faulty pre-seeding: the entries carry no status
CreateStatusMapNoStatus(roster) == [id \in DOMAIN roster |-> [NewEntry(id) EXCEPT !.status = ""]]

\* CreateAssignmentPage.onSubmit: the statusMap pre-seeded from the roster read
CreateStatusMap(roster) == [id \in DOMAIN roster |-> NewEntry(id)]

\* handleSyncAttendees: the local map plus an entry per attendee it lacks
SyncedStatusMap(local, roster) ==
    [id \in (DOMAIN local) \cup (DOMAIN roster) |->
        IF id \in DOMAIN local THEN local[id] ELSE NewEntry(id)]

\* a faulty count: every attendee read counts as new
NewAttendeesCountAll(local, roster) == Cardinality(DOMAIN roster)

\* handleSyncAttendees: newAttendeesCount
NewAttendeesCount(local, roster) == Cardinality((DOMAIN roster) \ (DOMAIN local))

\* updateDoc(assignmentRef, {"statusMap.<sid>.<field>": value, ...}): the
\* named fields of the entry are written, the entry is created when missing
UpdatePaths(statusMap, sid, fields) ==
    Put(statusMap, sid,
        MergeFields(IF sid \in DOMAIN statusMap THEN statusMap[sid] ELSE EmptyMap, fields))

\* the statusMap of a stored assignment: data.statusMap || {}
StatusMapOf(doc) == IF doc = NoDoc THEN EmptyMap ELSE doc.statusMap

\* one field of an entry, "" when the entry does not have it
FieldOf(entry, key) == IF key \in DOMAIN entry THEN entry[key] ELSE ""

InitTrackPages ==
    /\ assignments = [a \in AssignmentIds |-> NoDoc]
    /\ submissions = EmptyMap
    /\ cpc = "idle"
    /\ cMap = EmptyMap
    /\ kId = [c \in TrackClients |-> "none"]
    /\ kAssignment = [c \in TrackClients |-> EmptyMap]
    /\ kStatusMap = [c \in TrackClients |-> EmptyMap]
    /\ kpc = [c \in TrackClients |-> "idle"]
    /\ kArg = [c \in TrackClients |-> EmptyMap]
    /\ kOps = [c \in TrackClients |-> 0]
    /\ kSync = [c \in TrackClients |-> NoSync]
    /\ sId = 0
    /\ sList = EmptyMap
    /\ sSelected = "none"
    /\ sNote = ""
    /\ spc = "closed"
    /\ sOps = 0
    /\ sResult = "none"
    /\ rpc = "idle"
    /\ rArg = NoDoc
    /\ rOps = 0
    /\ rResult = "none"
    /\ InitAuth

\* what the handlers of the assignment pages leave alone
notTrack == <<rosterVars, dayVars, authVars, summaryVars>>

\* ------------------------------------------------------------------------
\* CreateAssignmentPage.onSubmit
\* ------------------------------------------------------------------------
\* getDocs(collection "attendees") and the statusMap built from it
CreateRead ==
    /\ cpc = "idle"
    /\ \E a \in AssignmentIds : assignments[a] = NoDoc
    /\ cMap' = CreateStatusMap(attendees)
    /\ cpc' = "create_write"
    /\ UNCHANGED <<trackStore, trackPage, studentPage, reviewPage, notTrack>>

\* addDoc(collection "assignments", {...data, createdAt, statusMap})
CreateWrite ==
    /\ cpc = "create_write"
    /\ \E a \in AssignmentIds :
          /\ assignments[a] = NoDoc
          /\ assignments' = [assignments EXCEPT ![a] = [statusMap |-> cMap]]
    /\ cpc' = "idle"
    /\ cMap' = EmptyMap
    /\ UNCHANGED <<submissions, trackPage, studentPage, reviewPage, notTrack>>

\* ------------------------------------------------------------------------
\* TrackAssignmentPage
\* ------------------------------------------------------------------------
\* the page is opened for an assignment (or opened again): fetchAssignment starts
OpenTracker(c, a) ==
    /\ kpc[c] = "idle"
    /\ assignments[a] # NoDoc
    /\ kId' = [kId EXCEPT ![c] = a]
    /\ kAssignment' = [kAssignment EXCEPT ![c] = EmptyMap]
    /\ kStatusMap' = [kStatusMap EXCEPT ![c] = EmptyMap]
    /\ kpc' = [kpc EXCEPT ![c] = "fetch"]
    /\ kSync' = [kSync EXCEPT ![c] = NoSync]
    /\ UNCHANGED <<kArg, kOps, trackStore, createPage, studentPage, reviewPage, notTrack>>

\* fetchAssignment, at mount and at the end of a sync
FetchAssignment(c) ==
    /\ kpc[c] \in {"fetch", "sync_fetch"}
    /\ IF assignments[kId[c]] # NoDoc
       THEN /\ kAssignment' = [kAssignment EXCEPT ![c] = StatusMapOf(assignments[kId[c]])]
            /\ kStatusMap' = [kStatusMap EXCEPT ![c] = StatusMapOf(assignments[kId[c]])]
            /\ UNCHANGED kId
       ELSE /\ kId' = [kId EXCEPT ![c] = "none"]
            /\ UNCHANGED <<kAssignment, kStatusMap>>
    /\ kpc' = [kpc EXCEPT ![c] = "idle"]
    /\ UNCHANGED <<kArg, kOps, kSync, trackStore, createPage, studentPage, reviewPage, notTrack>>

\* handleFieldChange(studentId, field, value) of a table row
HandleFieldChange(c, sid, field, value) ==
    /\ kpc[c] = "idle"
    /\ kId[c] # "none"
    /\ kOps[c] < MaxTrackOps
    /\ sid \in DOMAIN kStatusMap[c]
    /\ FieldOf(kStatusMap[c][sid], "studentId") = sid
    /\ kStatusMap' = [kStatusMap EXCEPT
                         ![c] = Put(@, sid, MergeFields(@[sid], field :> value))]
    /\ kOps' = [kOps EXCEPT ![c] = @ + 1]
    /\ kSync' = [kSync EXCEPT ![c] = NoSync]
    /\ UNCHANGED <<kId, kAssignment, kpc, kArg, trackStore, createPage, studentPage, reviewPage, notTrack>>

\* handleBulkUpdate(status)
HandleBulkUpdate(c, status) ==
    /\ kpc[c] = "idle"
    /\ kId[c] # "none"
    /\ kOps[c] < MaxTrackOps
    /\ kStatusMap' = [kStatusMap EXCEPT ![c] =
                         [sid \in DOMAIN @ |-> MergeFields(@[sid], "status" :> status)]]
    /\ kOps' = [kOps EXCEPT ![c] = @ + 1]
    /\ kSync' = [kSync EXCEPT ![c] = NoSync]
    /\ UNCHANGED <<kId, kAssignment, kpc, kArg, trackStore, createPage, studentPage, reviewPage, notTrack>>

\* updateDoc(docRef, {statusMap: map}): the whole field is replaced; the
\* call fails on a missing document
ReplaceStatusMap(docs, a, map) ==
    IF docs[a] # NoDoc
    THEN [docs EXCEPT ![a] = [@ EXCEPT !.statusMap = map]]
    ELSE docs

\* handleSaveChanges() from the Save button: the local map is written
HandleSaveChanges(c) ==
    /\ kpc[c] = "idle"
    /\ kId[c] # "none"
    /\ kOps[c] < MaxTrackOps
    /\ assignments' = ReplaceStatusMap(assignments, kId[c], kStatusMap[c])
    /\ kAssignment' = [kAssignment EXCEPT
                          ![c] = IF assignments[kId[c]] # NoDoc THEN kStatusMap[c] ELSE @]
    /\ kOps' = [kOps EXCEPT ![c] = @ + 1]
    /\ kSync' = [kSync EXCEPT ![c] = NoSync]
    /\ UNCHANGED <<kId, kStatusMap, kpc, kArg, submissions, createPage, studentPage, reviewPage, notTrack>>

\* handleSyncAttendees up to its write: the roster is read and the local
\* map is completed; nothing is written when no attendee is missing
SyncRead(c) ==
    /\ kpc[c] = "idle"
    /\ kId[c] # "none"
    /\ kOps[c] < MaxTrackOps
    /\ IF NewAttendeesCount(kStatusMap[c], attendees) > 0
       THEN /\ kStatusMap' = [kStatusMap EXCEPT ![c] = SyncedStatusMap(@, attendees)]
            /\ kArg' = [kArg EXCEPT ![c] = SyncedStatusMap(kStatusMap[c], attendees)]
            /\ kpc' = [kpc EXCEPT ![c] = "sync_save"]
       ELSE UNCHANGED <<kStatusMap, kArg, kpc>>
    /\ kOps' = [kOps EXCEPT ![c] = @ + 1]
    /\ kSync' = [kSync EXCEPT ![c] =
                    [run |-> @.run + 1,
                     roster |-> DOMAIN attendees,
                     wrote |-> @.wrote \/ NewAttendeesCount(kStatusMap[c], attendees) > 0]]
    /\ UNCHANGED <<kId, kAssignment, trackStore, createPage, studentPage, reviewPage, notTrack>>

\* handleSyncAttendees: await handleSaveChanges(newStatusMap)
SyncSave(c) ==
    /\ kpc[c] = "sync_save"
    /\ assignments' = ReplaceStatusMap(assignments, kId[c], kArg[c])
    /\ kAssignment' = [kAssignment EXCEPT
                          ![c] = IF assignments[kId[c]] # NoDoc THEN kArg[c] ELSE @]
    /\ kArg' = [kArg EXCEPT ![c] = EmptyMap]
    /\ kpc' = [kpc EXCEPT ![c] = "sync_fetch"]
    /\ UNCHANGED <<kId, kStatusMap, kOps, kSync, submissions, createPage, studentPage, reviewPage, notTrack>>

\* ------------------------------------------------------------------------
\* StudentAssignmentsPage
\* ------------------------------------------------------------------------
\* the student whose profile resolved to attendee sid opens (or reloads) the page
OpenStudentPage(sid) ==
    /\ spc \in {"closed", "idle"}
    /\ sid \in DOMAIN attendees
    /\ sId \in {0, sid}
    /\ sId' = sid
    /\ sList' = EmptyMap
    /\ sSelected' = "none"
    /\ sNote' = ""
    /\ spc' = "fetch"
    /\ UNCHANGED <<sOps, sResult, trackStore, createPage, trackPage, reviewPage, notTrack>>

\* fetchAssignments
FetchAssignments ==
    /\ spc = "fetch"
    /\ sList' = [a \in {x \in AssignmentIds : assignments[x] # NoDoc} |->
                    StatusMapOf(assignments[a])]
    /\ spc' = "idle"
    /\ UNCHANGED <<sId, sSelected, sNote, sOps, sResult, trackStore, createPage, trackPage, reviewPage, notTrack>>

\* handleOpenSubmitDialog: the button is rendered for the student's own
\* entry while it is Assigned or Submitted
HandleOpenSubmitDialog(a) ==
    /\ spc = "idle"
    /\ sSelected = "none"
    /\ a \in DOMAIN sList
    /\ sId \in DOMAIN sList[a]
    /\ FieldOf(sList[a][sId], "status") \in {"Assigned", "Submitted"}
    /\ sNote' = FieldOf(sList[a][sId], "note")
    /\ sSelected' = a
    /\ UNCHANGED <<sId, sList, spc, sOps, sResult, trackStore, createPage, trackPage, reviewPage, notTrack>>

\* the note typed into the dialog
SetSubmissionNote(n) ==
    /\ spc = "idle"
    /\ sSelected # "none"
    /\ sNote' = n
    /\ UNCHANGED <<sId, sList, sSelected, spc, sOps, sResult, trackStore, createPage, trackPage, reviewPage, notTrack>>

\* the submission document handleSubmitAssignment writes
SubmissionData(a, sid, note) ==
    [assignmentId |-> a, studentId |-> sid, notes |-> note, status |-> "submitted"]

\* handleSubmitAssignment: setDoc(submissions/<a>_<sid>, {...}, {merge: true});
\* the composite document id is the pair of its two parts
SubmitSubmission ==
    /\ spc = "idle"
    /\ sSelected # "none"
    /\ sOps < MaxSubmits
    /\ LET key == <<sSelected, sId>>
           old == IF key \in DOMAIN submissions THEN submissions[key] ELSE EmptyMap
       IN  submissions' = Put(submissions, key,
                              MergeFields(old, SubmissionData(sSelected, sId, sNote)))
    /\ spc' = "submit_map"
    /\ sOps' = sOps + 1
    /\ sResult' = "pending"
    /\ UNCHANGED <<sId, sList, sSelected, sNote, assignments, createPage, trackPage, reviewPage, notTrack>>

\* faulty variant: the submit does not carry the typed note into the statusMap
SubmitFieldsWithoutNote(note) ==
    [status |-> "Submitted", note |-> "", fileURL |-> "", fileName |-> ""]

\* the statusMap fields a submit writes
SubmitFields(note) ==
    [status |-> "Submitted", note |-> note, fileURL |-> "", fileName |-> ""]

\* handleSubmitAssignment: updateDoc(assignmentRef, {statusMap.<sid>.status: ...});
\* then the list is fetched again and the dialog is reset; on a missing
\* assignment the call rejects and the catch block reports the error
SubmitStatusMap ==
    /\ spc = "submit_map"
    /\ IF assignments[sSelected] # NoDoc
       THEN /\ assignments' = ReplaceStatusMap(assignments, sSelected,
                    UpdatePaths(StatusMapOf(assignments[sSelected]), sId, SubmitFields(sNote)))
            /\ spc' = "fetch"
            /\ sSelected' = "none"
            /\ sNote' = ""
            /\ sResult' = "ok"
       ELSE /\ UNCHANGED <<assignments, sSelected, sNote>>
            /\ spc' = "idle"
            /\ sResult' = "error"
    /\ UNCHANGED <<sId, sList, sOps, submissions, createPage, trackPage, reviewPage, notTrack>>

\* handleSubmitAssignment: the catch block, which writes nothing
CatchSubmit(subs, key) == subs

\* handleSubmitAssignment: the updateDoc of the assignment rejects (the
\* store is unreachable or denies the write): the catch block reports the
\* error and the handler ends
SubmitStatusMapFail ==
    /\ spc = "submit_map"
    /\ submissions' = CatchSubmit(submissions, <<sSelected, sId>>)
    /\ spc' = "idle"
    /\ sResult' = "error"
    /\ UNCHANGED <<sId, sList, sSelected, sNote, sOps, assignments, createPage, trackPage, reviewPage, notTrack>>

\* ------------------------------------------------------------------------
\* ReviewAssignmentsPage.handleSaveReview
\* ------------------------------------------------------------------------
\* updateDoc(submissions/<id>, {feedback, grade, status: "graded"}) for a
\* submission of the snapshot listener
GradeSubmission(a, sid, grade, feedback) ==
    /\ rpc = "idle"
    /\ rOps < MaxGrades
    /\ <<a, sid>> \in DOMAIN submissions
    /\ submissions' = Put(submissions, <<a, sid>>,
                          MergeFields(submissions[<<a, sid>>],
                                      [feedback |-> feedback, grade |-> grade, status |-> "graded"]))
    /\ rArg' = [assignmentId |-> a, studentId |-> sid, grade |-> grade]
    /\ rpc' = "grade_map"
    /\ rOps' = rOps + 1
    /\ rResult' = "pending"
    /\ UNCHANGED <<assignments, createPage, trackPage, studentPage, notTrack>>

\* faulty variant: the review also clears the student's note
GradeFieldsClearingNote(grade) == [status |-> "Graded", grade |-> grade, note |-> ""]

\* the statusMap fields a review writes
GradeFields(grade) == [status |-> "Graded", grade |-> grade]

\* updateDoc(assignmentRef, {statusMap.<sid>.status: "Graded", statusMap.<sid>.grade: grade});
\* on a missing assignment the call rejects and the catch block reports the error
GradeStatusMap ==
    /\ rpc = "grade_map"
    /\ IF assignments[rArg.assignmentId] # NoDoc
       THEN /\ assignments' = ReplaceStatusMap(assignments, rArg.assignmentId,
                    UpdatePaths(StatusMapOf(assignments[rArg.assignmentId]), rArg.studentId,
                                GradeFields(rArg.grade)))
            /\ rResult' = "ok"
       ELSE /\ UNCHANGED assignments
            /\ rResult' = "error"
    /\ rpc' = "idle"
    /\ rArg' = NoDoc
    /\ UNCHANGED <<rOps, submissions, createPage, trackPage, studentPage, notTrack>>

\* faulty variant: the catch block puts the submission back to "submitted"
CatchSaveReviewReverting(subs, key) ==
    Put(subs, key, MergeFields(subs[key], [status |-> "submitted"]))

\* handleSaveReview: the catch block, which writes nothing
CatchSaveReview(subs, key) == subs

\* handleSaveReview: the updateDoc of the assignment rejects: the catch
\* block reports the error and the handler ends
GradeStatusMapFail ==
    /\ rpc = "grade_map"
    /\ submissions' = CatchSaveReview(submissions, <<rArg.assignmentId, rArg.studentId>>)
    /\ rResult' = "error"
    /\ rpc' = "idle"
    /\ rArg' = NoDoc
    /\ UNCHANGED <<rOps, assignments, createPage, trackPage, studentPage, notTrack>>

\* ------------------------------------------------------------------------
\* AssignmentsPage.handleDelete
\* ------------------------------------------------------------------------
\* deleteDoc(doc(db, "assignments", assignmentId)) for an assignment of the
\* list; nothing else is deleted
HandleDelete(a) ==
    /\ assignments[a] # NoDoc
    /\ assignments' = [assignments EXCEPT ![a] = NoDoc]
    /\ UNCHANGED <<submissions, createPage, trackPage, studentPage, reviewPage, notTrack>>

\* CreateAssignmentPage
CreateNext ==
    \/ CreateRead
    \/ CreateWrite

\* TrackAssignmentPage of client c
TrackerNext(c) ==
    \/ \E a \in AssignmentIds : OpenTracker(c, a)
    \/ FetchAssignment(c)
    \/ \E sid \in Ids, st \in AssignStatuses : HandleFieldChange(c, sid, "status", st)
    \/ \E sid \in Ids, g \in GradeInputs : HandleFieldChange(c, sid, "grade", g)
    \/ \E sid \in Ids, n \in NoteTexts : HandleFieldChange(c, sid, "note", n)
    \/ \E st \in AssignStatuses : HandleBulkUpdate(c, st)
    \/ HandleSaveChanges(c)
    \/ SyncRead(c)
    \/ SyncSave(c)

\* TrackAssignmentPage of client c used without editing the table: the
\* page is loaded, saved and synced
TrackerSaveNext(c) ==
    \/ \E a \in AssignmentIds : OpenTracker(c, a)
    \/ FetchAssignment(c)
    \/ HandleSaveChanges(c)
    \/ SyncRead(c)
    \/ SyncSave(c)

\* the roster operations that add attendees under the trackers
RosterAddNext ==
    \/ FetchAttendees
    \/ \E n \in Names, e \in Emails : AddSubmit(n, e)
    \/ AddWrite

\* one teacher creating and tracking assignments
TrackNext == CreateNext \/ TrackerNext("t1")

\* StudentAssignmentsPage
StudentNext ==
    \/ \E sid \in Ids : OpenStudentPage(sid)
    \/ FetchAssignments
    \/ \E a \in AssignmentIds : HandleOpenSubmitDialog(a)
    \/ \E n \in NoteTexts : SetSubmissionNote(n)
    \/ SubmitSubmission
    \/ SubmitStatusMap
    \/ SubmitStatusMapFail

\* ReviewAssignmentsPage
ReviewNext ==
    \/ \E a \in AssignmentIds, sid \in Ids, g \in GradeInputs, f \in FeedbackInputs :
          GradeSubmission(a, sid, g, f)
    \/ GradeStatusMap
    \/ GradeStatusMapFail

\* the roster operations that change the roster under the tracker
TrackRosterNext ==
    \/ FetchAttendees
    \/ \E n \in Names, e \in Emails : AddSubmit(n, e)
    \/ AddWrite
    \/ \E i \in Ids : SoftDeleteArchive(i)
    \/ SoftDeleteRemove

\* ------------------------------------------------------------------------
\* Specifications
\* ------------------------------------------------------------------------
\* the roster the ledger is marked against: attendee i holds the i-th e-mail
RosterOf(k) ==
    [i \in 1..k |-> [name |-> "n1",
                     email |-> <<IF i = 1 THEN "u1" ELSE "u2", "x.com">>]]

\* roster pages and login page, on an empty store
InitRosterSpec == InitRoster /\ InitDayPages /\ InitTrackPages

NextRoster == TeacherNext \/ LoginNext

SpecRoster == InitRosterSpec /\ [][NextRoster]_vars

SpecArchive == InitRosterSpec /\ [][NextArchive]_vars

\* Mark Attendance pages of two teachers over a roster of two attendees
InitDay ==
    /\ attendees = RosterOf(2)
    /\ usedIds = {1, 2}
    /\ deleted_attendees = NoDoc
    /\ users = NoDoc
    /\ authAccounts = {}
    /\ view = "active"
    /\ tList = NoDoc
    /\ tpc = "idle"
    /\ targ = NoDoc
    /\ tResult = "none"
    /\ lpc = [c \in LoginClients |-> "idle"]
    /\ larg = [c \in LoginClients |-> NoDoc]
    /\ lResult = [c \in LoginClients |-> "none"]
    /\ lOps = [c \in LoginClients |-> 0]
    /\ authUser = [c \in LoginClients |-> NoDoc]
    /\ path = [c \in LoginClients |-> "/login"]
    /\ InitSummaryPage
    /\ InitDayPages
    /\ InitTrackPages

SpecDay == InitDay /\ [][DayNext]_vars

\* the Create Assignment and Track Assignment pages of one teacher over a
\* roster that starts with one attendee and is changed by the Manage
\* Attendees page
InitAssign ==
    /\ attendees = RosterOf(1)
    /\ usedIds = {1}
    /\ deleted_attendees = NoDoc
    /\ users = NoDoc
    /\ authAccounts = {}
    /\ view = "active"
    /\ tList = RosterOf(1)
    /\ tpc = "idle"
    /\ targ = NoDoc
    /\ tResult = "none"
    /\ lpc = [c \in LoginClients |-> "idle"]
    /\ larg = [c \in LoginClients |-> NoDoc]
    /\ lResult = [c \in LoginClients |-> "none"]
    /\ lOps = [c \in LoginClients |-> 0]
    /\ authUser = [c \in LoginClients |-> NoDoc]
    /\ path = [c \in LoginClients |-> "/login"]
    /\ InitSummaryPage
    /\ InitDayPages
    /\ InitTrackPages

NextAssign == TrackNext \/ TrackRosterNext

SpecAssign == InitAssign /\ [][NextAssign]_vars

\* two clients showing the Track Assignment page of an assignment created
\* for a roster of one attendee, while the roster is changed
InitTrackers ==
    /\ attendees = RosterOf(1)
    /\ usedIds = {1}
    /\ deleted_attendees = NoDoc
    /\ users = NoDoc
    /\ authAccounts = {}
    /\ view = "active"
    /\ tList = RosterOf(1)
    /\ tpc = "idle"
    /\ targ = NoDoc
    /\ tResult = "none"
    /\ lpc = [c \in LoginClients |-> "idle"]
    /\ larg = [c \in LoginClients |-> NoDoc]
    /\ lResult = [c \in LoginClients |-> "none"]
    /\ lOps = [c \in LoginClients |-> 0]
    /\ authUser = [c \in LoginClients |-> NoDoc]
    /\ path = [c \in LoginClients |-> "/login"]
    /\ InitSummaryPage
    /\ InitDayPages
    /\ assignments = [a \in AssignmentIds |-> [statusMap |-> CreateStatusMap(RosterOf(1))]]
    /\ submissions = EmptyMap
    /\ cpc = "idle"
    /\ cMap = EmptyMap
    /\ kId = [c \in TrackClients |-> "none"]
    /\ kAssignment = [c \in TrackClients |-> EmptyMap]
    /\ kStatusMap = [c \in TrackClients |-> EmptyMap]
    /\ kpc = [c \in TrackClients |-> "idle"]
    /\ kArg = [c \in TrackClients |-> EmptyMap]
    /\ kOps = [c \in TrackClients |-> 0]
    /\ kSync = [c \in TrackClients |-> NoSync]
    /\ sId = 0
    /\ sList = EmptyMap
    /\ sSelected = "none"
    /\ sNote = ""
    /\ spc = "closed"
    /\ sOps = 0
    /\ sResult = "none"
    /\ rpc = "idle"
    /\ rArg = NoDoc
    /\ rOps = 0
    /\ rResult = "none"
    /\ InitAuth

NextTrackers == TrackerNext("t1") \/ TrackerSaveNext("t2") \/ RosterAddNext

SpecTrackers == InitTrackers /\ [][NextTrackers]_vars

\* a student and a reviewing teacher on an assignment created for a roster
\* of two attendees
InitReview ==
    /\ attendees = RosterOf(2)
    /\ usedIds = {1, 2}
    /\ deleted_attendees = NoDoc
    /\ users = NoDoc
    /\ authAccounts = {}
    /\ view = "active"
    /\ tList = NoDoc
    /\ tpc = "idle"
    /\ targ = NoDoc
    /\ tResult = "none"
    /\ lpc = [c \in LoginClients |-> "idle"]
    /\ larg = [c \in LoginClients |-> NoDoc]
    /\ lResult = [c \in LoginClients |-> "none"]
    /\ lOps = [c \in LoginClients |-> 0]
    /\ authUser = [c \in LoginClients |-> NoDoc]
    /\ path = [c \in LoginClients |-> "/login"]
    /\ InitSummaryPage
    /\ InitDayPages
    /\ assignments = [a \in AssignmentIds |-> [statusMap |-> CreateStatusMap(RosterOf(2))]]
    /\ submissions = EmptyMap
    /\ cpc = "idle"
    /\ cMap = EmptyMap
    /\ kId = [c \in TrackClients |-> "none"]
    /\ kAssignment = [c \in TrackClients |-> EmptyMap]
    /\ kStatusMap = [c \in TrackClients |-> EmptyMap]
    /\ kpc = [c \in TrackClients |-> "idle"]
    /\ kArg = [c \in TrackClients |-> EmptyMap]
    /\ kOps = [c \in TrackClients |-> 0]
    /\ kSync = [c \in TrackClients |-> NoSync]
    /\ sId = 0
    /\ sList = EmptyMap
    /\ sSelected = "none"
    /\ sNote = ""
    /\ spc = "closed"
    /\ sOps = 0
    /\ sResult = "none"
    /\ rpc = "idle"
    /\ rArg = NoDoc
    /\ rOps = 0
    /\ rResult = "none"
    /\ InitAuth

NextReview == StudentNext \/ ReviewNext

SpecReview == InitReview /\ [][NextReview]_vars

\* the same pages while the teacher's assignment list deletes assignments
NextDelete == NextReview \/ \E a \in AssignmentIds : HandleDelete(a)

SpecDelete == InitReview /\ [][NextDelete]_vars

\* ------------------------------------------------------------------------
\* Roster properties
\* ------------------------------------------------------------------------
\* some active or archived attendee holds the e-mail
EmailHeld(e) ==
    \/ \E i \in DOMAIN attendees : attendees[i].email = e
    \/ \E i \in DOMAIN deleted_attendees : deleted_attendees[i].email = e

\* some attendee other than id (active, or archived from another id) holds the e-mail
OtherHolds(e, id) ==
    \/ \E i \in DOMAIN attendees : i # id /\ attendees[i].email = e
    \/ \E i \in DOMAIN deleted_attendees :
          deleted_attendees[i].originalId # id /\ deleted_attendees[i].email = e

\* C3: no e-mail is held by two distinct attendees of the union of the
\* active and the archived collection (an attendee that is in both
\* collections under one id during its own move counts once).
C3_EmailUnique ==
    /\ \A i, j \in DOMAIN attendees :
          i # j => attendees[i].email # attendees[j].email
    /\ \A i, j \in DOMAIN deleted_attendees :
          i # j => deleted_attendees[i].email # deleted_attendees[j].email
    /\ \A i \in DOMAIN attendees, j \in DOMAIN deleted_attendees :
          i # deleted_attendees[j].originalId
             => attendees[i].email # deleted_attendees[j].email

\* C4: Add is rejected with the duplicate-email error and writes nothing
\* whenever the e-mail is held by an active or an archived attendee at the
\* time of the check; otherwise its write creates exactly one new active
\* attendee, with the submitted name and e-mail, and leaves the archive alone.
C4_AddDuplicateRejected ==
    [][ /\ \A n \in Names, e \in Emails :
             AddSubmit(n, e) =>
                IF EmailHeld(e)
                THEN /\ tResult' = "DuplicateEmail"
                     /\ tpc' = "idle"
                     /\ attendees' = attendees
                     /\ deleted_attendees' = deleted_attendees
                ELSE tpc' = "add_write"
        /\ AddWrite =>
             /\ deleted_attendees' = deleted_attendees
             /\ DOMAIN attendees \subseteq DOMAIN attendees'
             /\ Cardinality(DOMAIN attendees' \ DOMAIN attendees) = 1
             /\ \A i \in DOMAIN attendees : attendees'[i] = attendees[i]
             /\ \A i \in DOMAIN attendees' \ DOMAIN attendees :
                   attendees'[i] = [name |-> targ.name, email |-> targ.email]
      ]_vars

\* C4 witness: an Add was rejected for an e-mail that only an archived
\* (soft-deleted) attendee holds
C4_Witness ==
    /\ tpc = "idle"
    /\ tResult = "DuplicateEmail"
    /\ targ # NoDoc
    /\ targ.id = 0
    /\ QueryByEmail(attendees, targ.email) = {}
    /\ QueryByEmail(deleted_attendees, targ.email) # {}

\* C5: Edit is rejected with the duplicate-email error exactly when some
\* attendee other than the edited one holds the e-mail.
C5_EditRejectedIffOtherHolds ==
    [][ \A i \in Ids, n \in Names, e \in Emails :
           EditSubmit(i, n, e) => ((tResult' = "DuplicateEmail") <=> OtherHolds(e, i))
      ]_vars

\* C6: Restore fails with the duplicate-email error and changes nothing
\* whenever an active attendee holds the e-mail of the archived attendee;
\* otherwise, once its two writes are done, the attendee is in the active
\* collection under its original id with the archived name and e-mail and
\* its archive entry is gone.
C6_RestoreChecked ==
    [][ /\ \A i \in Ids :
             RestoreCheck(i) =>
                IF \E j \in DOMAIN attendees :
                      attendees[j].email = deleted_attendees[i].email
                THEN /\ tResult' = "DuplicateEmail"
                     /\ tpc' = "idle"
                     /\ attendees' = attendees
                     /\ deleted_attendees' = deleted_attendees
                ELSE tpc' = "restore_write"
        /\ RestoreRemove =>
             LET a == deleted_attendees[targ.id]
             IN  /\ a.originalId = targ.id
                 /\ a.originalId \in DOMAIN attendees'
                 /\ attendees'[a.originalId] = [name |-> a.name, email |-> a.email]
                 /\ targ.id \notin DOMAIN deleted_attendees'
      ]_vars

\* C6 witness: a Restore was rejected because an active attendee holds the
\* e-mail of the archived one, which stays archived
C6_Witness ==
    /\ tpc = "idle"
    /\ tResult = "DuplicateEmail"
    /\ targ # NoDoc
    /\ "originalId" \in DOMAIN targ
    /\ targ.id \in DOMAIN deleted_attendees
    /\ QueryByEmail(attendees, targ.email) # {}

\* C7: when SoftDelete has made its two writes, the archive holds an entry
\* with originalId = id, the name and e-mail the active entry had, and a
\* deletion timestamp, and the active collection no longer contains id.
C7_SoftDeleteArchives ==
    [][ SoftDeleteRemove =>
          LET id == targ.id
          IN  /\ id \in DOMAIN attendees
              /\ id \in DOMAIN deleted_attendees'
              /\ deleted_attendees'[id].originalId = id
              /\ deleted_attendees'[id].name = attendees[id].name
              /\ deleted_attendees'[id].email = attendees[id].email
              /\ deleted_attendees'[id].deletedAt = "serverTimestamp"
              /\ id \notin DOMAIN attendees'
      ]_vars

\* C7 witness: a SoftDelete has completed
C7_Witness ==
    /\ tpc = "fetch"
    /\ tResult = "ok"
    /\ targ # NoDoc
    /\ "originalId" \notin DOMAIN targ
    /\ targ.id \in DOMAIN deleted_attendees
    /\ targ.id \notin DOMAIN attendees

\* ------------------------------------------------------------------------
\* Attendance ledger properties
\* ------------------------------------------------------------------------
\* the summary of a day document is the tally of its records by status
SummaryMatches(doc) ==
    /\ doc.summary.present = Cardinality({id \in DOMAIN doc.records : doc.records[id].status = "Present"})
    /\ doc.summary.absent = Cardinality({id \in DOMAIN doc.records : doc.records[id].status = "Absent"})
    /\ doc.summary.leave = Cardinality({id \in DOMAIN doc.records : doc.records[id].status = "Leave"})
    /\ doc.summary.present + doc.summary.absent + doc.summary.leave
          = Cardinality(DOMAIN doc.records)

\* C1: a SaveDay whose write finds the day document as its read left it
\* (single writer) stores the records it merged, and the stored summary is
\* the tally of the stored records by status and sums to their number.
C1_SaveDaySummary ==
    [][ \A c \in DayClients :
           (SaveWrite(c)
              /\ ExistingRecords(attendance[mSave[c].payload.date]) = mSave[c].existing)
           => LET doc == attendance'[mSave[c].payload.date]
              IN  /\ doc # NoDoc
                  /\ doc.records = mSave[c].payload.records
                  /\ SummaryMatches(doc)
      ]_vars

\* C1 witness: both teachers have saved the day, the document holds two
\* records of different status and its summary is their tally
C1_Witness ==
    \E d \in Dates :
        /\ \A c \in DayClients : mResult[c] = "saved"
        /\ attendance[d] # NoDoc
        /\ Cardinality(DOMAIN attendance[d].records) = 2
        /\ attendance[d].summary.absent = 1
        /\ attendance[d].summary.leave = 1
        /\ SummaryMatches(attendance[d])

\* C2: in every reachable state, every stored day document has a summary
\* equal to the tally of its records by status.
C2_SummaryAlwaysMatches ==
    \A d \in Dates : attendance[d] # NoDoc => SummaryMatches(attendance[d])

\* ------------------------------------------------------------------------
\* Assignment tracker properties
\* ------------------------------------------------------------------------
\* C8: Create builds its statusMap from the active attendees it reads: the
\* keys are exactly their ids, every entry is Assigned with empty grade and
\* note, an attendee that is only in the archive gets no entry; the
\* assignment is written with that statusMap.
C8_CreateSnapshotsRoster ==
    [][ /\ CreateRead =>
             /\ DOMAIN cMap' = DOMAIN attendees
             /\ \A id \in DOMAIN cMap' :
                   /\ cMap'[id].status = "Assigned"
                   /\ cMap'[id].grade = ""
                   /\ cMap'[id].note = ""
             /\ \A id \in (DOMAIN deleted_attendees) \ (DOMAIN attendees) :
                   id \notin DOMAIN cMap'
        /\ CreateWrite =>
             \E a \in AssignmentIds :
                /\ assignments[a] = NoDoc
                /\ assignments'[a] # NoDoc
                /\ assignments'[a].statusMap = cMap
      ]_vars

\* C8 witness: an assignment no page has touched since its creation has one
\* Assigned entry per active attendee and none for an archived attendee
C8_Witness ==
    \E a \in AssignmentIds :
        /\ assignments[a] # NoDoc
        /\ \A c \in TrackClients : kId[c] = "none"
        /\ spc = "closed"
        /\ DOMAIN assignments[a].statusMap = DOMAIN attendees
        /\ DOMAIN attendees # {}
        /\ (DOMAIN deleted_attendees) \ (DOMAIN assignments[a].statusMap) # {}
        /\ \A id \in DOMAIN assignments[a].statusMap :
              assignments[a].statusMap[id] = NewEntry(id)

\* C9: the write of SyncRoster leaves every entry of the stored statusMap
\* present and unchanged, and the stored map then has an entry for every
\* attendee the sync read.
C9_SyncKeepsStoredEntries ==
    [][ \A c \in TrackClients :
           SyncSave(c) =>
              LET old == StatusMapOf(assignments[kId[c]])
                  new == StatusMapOf(assignments'[kId[c]])
              IN  /\ \A sid \in DOMAIN old : sid \in DOMAIN new /\ new[sid] = old[sid]
                  /\ kSync[c].roster \subseteq DOMAIN new
      ]_vars

\* C10: a SyncRoster that directly follows a SyncRoster on the same page and
\* reads the same roster finds no attendee missing: it writes nothing and
\* leaves the stored statusMap and the local map as they are.
C10_SyncIdempotent ==
    [][ \A c \in TrackClients :
           (SyncRead(c) /\ kSync[c].run >= 1 /\ kSync[c].roster = DOMAIN attendees)
              => /\ kpc'[c] = "idle"
                 /\ assignments' = assignments
                 /\ kStatusMap' = kStatusMap
      ]_vars

\* C10 witness: two syncs in a row were made, the first of which wrote the
\* missing entries, and the stored map covers the roster
C10_Witness ==
    \E c \in TrackClients :
        /\ kpc[c] = "idle"
        /\ kId[c] # "none"
        /\ kSync[c].run = 2
        /\ kSync[c].wrote
        /\ kSync[c].roster = DOMAIN attendees
        /\ kSync[c].roster \subseteq DOMAIN StatusMapOf(assignments[kId[c]])

\* C11: in every reachable state, every key of every stored statusMap is
\* the id of an attendee of the current active roster.
C11_StatusMapKeysInRoster ==
    \A a \in AssignmentIds :
        DOMAIN StatusMapOf(assignments[a]) \subseteq DOMAIN attendees

\* C12: no step removes a key from the stored statusMap of an assignment
\* that exists before and after the step.
C12_StatusMapKeysNeverShrink ==
    [][ \A a \in AssignmentIds :
           (assignments[a] # NoDoc /\ assignments'[a] # NoDoc)
              => DOMAIN assignments[a].statusMap \subseteq DOMAIN assignments'[a].statusMap
      ]_vars

\* ------------------------------------------------------------------------
\* One attendance page while attendees are archived
\* ------------------------------------------------------------------------
\* the teacher archives attendees of the roster
ArchiveNext ==
    \/ FetchAttendees
    \/ \E id \in Ids : SoftDeleteArchive(id)
    \/ SoftDeleteRemove

NextDayRoster == DayPageNext("c1") \/ ArchiveNext

\* the day document a teacher saved earlier over the roster of two:
\* attendee 1 Present, attendee 2 Absent with a note
SavedDay(d) ==
    LET form == [i \in 1..2 |-> IF i = 1 THEN [status |-> "Present", note |-> ""]
                                        ELSE [status |-> "Absent", note |-> "late"]]
        records == MergedRecords(EmptyMap, RosterOf(2), form, d)
    IN  [date |-> d, records |-> records, summary |-> ComputeSummary(records)]

\* roster of two, the attendees page has loaded it, the day was saved before
InitDayRoster ==
    /\ attendees = RosterOf(2)
    /\ usedIds = {1, 2}
    /\ deleted_attendees = NoDoc
    /\ users = NoDoc
    /\ authAccounts = {}
    /\ view = "active"
    /\ tList = RosterOf(2)
    /\ tpc = "idle"
    /\ targ = NoDoc
    /\ tResult = "none"
    /\ lpc = [c \in LoginClients |-> "idle"]
    /\ larg = [c \in LoginClients |-> NoDoc]
    /\ lResult = [c \in LoginClients |-> "none"]
    /\ lOps = [c \in LoginClients |-> 0]
    /\ authUser = [c \in LoginClients |-> NoDoc]
    /\ path = [c \in LoginClients |-> "/login"]
    /\ InitSummaryPage
    /\ attendance = [d \in Dates |-> SavedDay(d)]
    /\ mAttendees = [c \in DayClients |-> EmptyMap]
    /\ attendanceData = [c \in DayClients |-> EmptyMap]
    /\ selectedDate = [c \in DayClients |-> CHOOSE d \in Dates : TRUE]
    /\ mLoad = [c \in DayClients |-> "unmounted"]
    /\ mFetch = [c \in DayClients |-> {}]
    /\ mOrigin = [c \in DayClients |-> EmptyMap]
    /\ mpc = [c \in DayClients |-> "idle"]
    /\ mSave = [c \in DayClients |-> NoDoc]
    /\ mOps = [c \in DayClients |-> 0]
    /\ mResult = [c \in DayClients |-> "none"]
    /\ InitTrackPages

SpecDayRoster == InitDayRoster /\ [][NextDayRoster]_vars

\* ------------------------------------------------------------------------
\* The identity resolver over a store of profiles
\* ------------------------------------------------------------------------
\* the profiles an account can have: none, teacher, student without a
\* link, student linked to attendee 1 (in the roster) or 2 (not in it)
ProfilesOf(email) ==
    {NoDoc, [email |-> email, role |-> "teacher"]}
        \cup {StudentProfile(email, sid) : sid \in 0..2}

\* the store holding the given profile choice of every account
UsersOf(choice) ==
    LET held == {e \in Emails : choice[e] # NoDoc}
    IN  IF held = {} THEN NoDoc ELSE [e \in held |-> choice[e]]

\* both accounts exist, each with one of the possible profiles; the roster
\* holds attendee 1 only
InitResolver ==
    /\ attendees = RosterOf(1)
    /\ usedIds = {1, 2}
    /\ deleted_attendees = NoDoc
    /\ \E choice \in [Emails -> UNION {ProfilesOf(e) : e \in Emails}] :
          /\ \A e \in Emails : choice[e] \in ProfilesOf(e)
          /\ users = UsersOf(choice)
    /\ authAccounts = Emails
    /\ view = "active"
    /\ tList = NoDoc
    /\ tpc = "idle"
    /\ targ = NoDoc
    /\ tResult = "none"
    /\ lpc = [c \in LoginClients |-> "idle"]
    /\ larg = [c \in LoginClients |-> NoDoc]
    /\ lResult = [c \in LoginClients |-> "none"]
    /\ lOps = [c \in LoginClients |-> 0]
    /\ authUser = [c \in LoginClients |-> NoDoc]
    /\ path = [c \in LoginClients |-> "/login"]
    /\ InitSummaryPage
    /\ InitDayPages
    /\ InitTrackPages

SpecResolverSerial == InitResolver /\ [][AuthSerialNext]_vars

SpecResolver == InitResolver /\ [][AuthNext]_vars

\* one of the two accounts exists, with one of the possible profiles (a
\* student link names attendee 1 or nothing); the roster holds attendee 1,
\* whose e-mail is that of account u1
InitSession ==
    /\ attendees = RosterOf(1)
    /\ usedIds = {1}
    /\ deleted_attendees = NoDoc
    /\ \E e \in Emails :
          /\ authAccounts = {e}
          /\ \E profile \in ProfilesOf(e) :
                /\ "studentId" \in DOMAIN profile => profile.studentId \in {0, 1}
                /\ users = IF profile = NoDoc THEN NoDoc ELSE Put(NoDoc, e, profile)
    /\ view = "active"
    /\ tList = NoDoc
    /\ tpc = "idle"
    /\ targ = NoDoc
    /\ tResult = "none"
    /\ lpc = [c \in LoginClients |-> "idle"]
    /\ larg = [c \in LoginClients |-> NoDoc]
    /\ lResult = [c \in LoginClients |-> "none"]
    /\ lOps = [c \in LoginClients |-> 0]
    /\ authUser = [c \in LoginClients |-> NoDoc]
    /\ path = [c \in LoginClients |-> "/login"]
    /\ InitSummaryPage
    /\ InitDayPages
    /\ InitTrackPages

SpecSession == InitSession /\ [][NextSession]_vars

\* the steps nobody has to start: a handler that has begun goes on when
\* its awaited call returns, the provider delivers its events, reads
\* resolve and effects run
SessionProgress ==
    /\ WF_vars(SignupQuery(Device))
    /\ WF_vars(SignupAdd(Device))
    /\ WF_vars(SignupProfile(Device))
    /\ WF_vars(SignupTeacherProfile(Device))
    /\ WF_vars(LoginGetDoc(Device))
    /\ WF_vars(LoginQuery(Device))
    /\ WF_vars(LoginAdd(Device))
    /\ WF_vars(LoginProfile(Device))
    /\ WF_vars(AuthNotify)
    /\ \A n \in 1..MaxAuthEvents : WF_vars(ResolveUserDoc(n)) /\ WF_vars(ResolveStudentDoc(n))
    /\ WF_vars(AuthGuard)

SpecSessionFair == SpecSession /\ SessionProgress

\* ------------------------------------------------------------------------
\* The summary row over all record counts
\* ------------------------------------------------------------------------
\* the records of the student have been loaded, with any counts by status
InitSummary ==
    /\ attendees = RosterOf(1)
    /\ usedIds = {1}
    /\ deleted_attendees = NoDoc
    /\ users = NoDoc
    /\ authAccounts = {}
    /\ view = "active"
    /\ tList = NoDoc
    /\ tpc = "idle"
    /\ targ = NoDoc
    /\ tResult = "none"
    /\ lpc = [c \in LoginClients |-> "idle"]
    /\ larg = [c \in LoginClients |-> NoDoc]
    /\ lResult = [c \in LoginClients |-> "none"]
    /\ lOps = [c \in LoginClients |-> 0]
    /\ authUser = [c \in LoginClients |-> NoDoc]
    /\ path = [c \in LoginClients |-> "/login"]
    /\ InitDayPages
    /\ InitTrackPages
    /\ qPresent \in 0..MaxPresent
    /\ qAbsent \in 0..MaxAbsent
    /\ qLeave \in 0..MaxLeave
    /\ qSummary = NoDoc

SpecSummary == InitSummary /\ [][ProcessSummary]_vars

\* ------------------------------------------------------------------------
\* Two attendance pages over a day saved before
\* ------------------------------------------------------------------------
\* the day document a teacher saved earlier: attendee 1 Absent, attendee 2
\* not marked
MarkedDay(d) ==
    LET form == [i \in {1} |-> [status |-> "Absent", note |-> ""]]
        records == MergedRecords(EmptyMap, RosterOf(2), form, d)
    IN  [date |-> d, records |-> records, summary |-> ComputeSummary(records)]

\* roster of two, every day document holds the record of attendee 1
InitDayMarked ==
    /\ attendees = RosterOf(2)
    /\ usedIds = {1, 2}
    /\ deleted_attendees = NoDoc
    /\ users = NoDoc
    /\ authAccounts = {}
    /\ view = "active"
    /\ tList = NoDoc
    /\ tpc = "idle"
    /\ targ = NoDoc
    /\ tResult = "none"
    /\ lpc = [c \in LoginClients |-> "idle"]
    /\ larg = [c \in LoginClients |-> NoDoc]
    /\ lResult = [c \in LoginClients |-> "none"]
    /\ lOps = [c \in LoginClients |-> 0]
    /\ authUser = [c \in LoginClients |-> NoDoc]
    /\ path = [c \in LoginClients |-> "/login"]
    /\ InitSummaryPage
    /\ attendance = [d \in Dates |-> MarkedDay(d)]
    /\ mAttendees = [c \in DayClients |-> EmptyMap]
    /\ attendanceData = [c \in DayClients |-> EmptyMap]
    /\ selectedDate = [c \in DayClients |-> CHOOSE d \in Dates : TRUE]
    /\ mLoad = [c \in DayClients |-> "unmounted"]
    /\ mFetch = [c \in DayClients |-> {}]
    /\ mOrigin = [c \in DayClients |-> EmptyMap]
    /\ mpc = [c \in DayClients |-> "idle"]
    /\ mSave = [c \in DayClients |-> NoDoc]
    /\ mOps = [c \in DayClients |-> 0]
    /\ mResult = [c \in DayClients |-> "none"]
    /\ InitTrackPages

SpecDayMarked == InitDayMarked /\ [][DayNext]_vars

\* one teacher changing dates: the day the page opens on is stored with
\* attendee 1 Absent, the other day has no document
InitDates ==
    /\ attendees = RosterOf(2)
    /\ usedIds = {1, 2}
    /\ deleted_attendees = NoDoc
    /\ users = NoDoc
    /\ authAccounts = {}
    /\ view = "active"
    /\ tList = NoDoc
    /\ tpc = "idle"
    /\ targ = NoDoc
    /\ tResult = "none"
    /\ lpc = [c \in LoginClients |-> "idle"]
    /\ larg = [c \in LoginClients |-> NoDoc]
    /\ lResult = [c \in LoginClients |-> "none"]
    /\ lOps = [c \in LoginClients |-> 0]
    /\ authUser = [c \in LoginClients |-> NoDoc]
    /\ path = [c \in LoginClients |-> "/login"]
    /\ InitSummaryPage
    /\ attendance = [d \in Dates |-> IF d = (CHOOSE x \in Dates : TRUE) THEN MarkedDay(d) ELSE NoDoc]
    /\ mAttendees = [c \in DayClients |-> EmptyMap]
    /\ attendanceData = [c \in DayClients |-> EmptyMap]
    /\ selectedDate = [c \in DayClients |-> CHOOSE d \in Dates : TRUE]
    /\ mLoad = [c \in DayClients |-> "unmounted"]
    /\ mFetch = [c \in DayClients |-> {}]
    /\ mOrigin = [c \in DayClients |-> EmptyMap]
    /\ mpc = [c \in DayClients |-> "idle"]
    /\ mSave = [c \in DayClients |-> NoDoc]
    /\ mOps = [c \in DayClients |-> 0]
    /\ mResult = [c \in DayClients |-> "none"]
    /\ InitTrackPages

NextDates == DayPageNext("c1") \/ \E d \in Dates : SelectDate("c1", d)

SpecDates == InitDates /\ [][NextDates]_vars

\* ------------------------------------------------------------------------
\* Two devices at the login page
\* ------------------------------------------------------------------------
NextLogin == \E c \in LoginClients : LoginPageNext(c)

SpecLogin == InitRosterSpec /\ [][NextLogin]_vars

\* ------------------------------------------------------------------------
\* Student submission and review
\* ------------------------------------------------------------------------
\* every entry of the map m other than key k is in m2 with the same value
OthersKept(m, m2, k) ==
    \A x \in DOMAIN m \ {k} : x \in DOMAIN m2 /\ m2[x] = m[x]

\* C13: a student's submit writes the one Submission document of the pair
\* (assignment, student) with status "submitted" and the typed note, creating
\* it or updating the same document, and then sets the student's statusMap
\* entry to status "Submitted" with that note and empty fileURL and fileName;
\* no other submission, no other student's entry and no other assignment
\* changes.
C13_StudentSubmit ==
    [][ /\ SubmitSubmission =>
              LET key == <<sSelected, sId>>
              IN  /\ DOMAIN submissions' = DOMAIN submissions \cup {key}
                  /\ submissions'[key].assignmentId = sSelected
                  /\ submissions'[key].studentId = sId
                  /\ submissions'[key].status = "submitted"
                  /\ submissions'[key].notes = sNote
                  /\ OthersKept(submissions, submissions', key)
                  /\ assignments' = assignments
        /\ (SubmitStatusMap /\ sResult' = "ok") =>
              LET m  == StatusMapOf(assignments[sSelected])
                  m2 == StatusMapOf(assignments'[sSelected])
              IN  /\ DOMAIN m2 = DOMAIN m \cup {sId}
                  /\ m2[sId].status = "Submitted"
                  /\ m2[sId].note = sNote
                  /\ m2[sId].fileURL = ""
                  /\ m2[sId].fileName = ""
                  /\ OthersKept(m, m2, sId)
                  /\ \A a \in AssignmentIds \ {sSelected} : assignments'[a] = assignments[a]
                  /\ submissions' = submissions ]_vars

\* a second submit of the same student has completed: one submission
\* document, carrying the note typed the second time, as does the entry
C13_Witness ==
    /\ sResult = "ok"
    /\ sOps = 2
    /\ \E a \in AssignmentIds :
          /\ DOMAIN submissions = {<<a, sId>>}
          /\ submissions[<<a, sId>>].status = "submitted"
          /\ submissions[<<a, sId>>].notes = "n"
          /\ assignments[a] # NoDoc
          /\ sId \in DOMAIN assignments[a].statusMap
          /\ FieldOf(assignments[a].statusMap[sId], "status") = "Submitted"
          /\ FieldOf(assignments[a].statusMap[sId], "note") = "n"

\* C14: saving a review sets the submission to status "graded" with the
\* entered grade and feedback, and then sets the student's statusMap entry to
\* status "Graded" with that grade; the entry's note and every other entry
\* are unchanged, and the feedback is not stored in the statusMap.
C14_Grade ==
    [][ /\ \A a \in AssignmentIds, sid \in Ids, g \in GradeInputs, f \in FeedbackInputs :
              GradeSubmission(a, sid, g, f) =>
                  /\ DOMAIN submissions' = DOMAIN submissions
                  /\ submissions'[<<a, sid>>].status = "graded"
                  /\ submissions'[<<a, sid>>].grade = g
                  /\ submissions'[<<a, sid>>].feedback = f
                  /\ submissions'[<<a, sid>>].notes = submissions[<<a, sid>>].notes
                  /\ OthersKept(submissions, submissions', <<a, sid>>)
                  /\ assignments' = assignments
        /\ (GradeStatusMap /\ rResult' = "ok") =>
              LET a   == rArg.assignmentId
                  sid == rArg.studentId
                  m   == StatusMapOf(assignments[a])
                  m2  == StatusMapOf(assignments'[a])
              IN  /\ DOMAIN m2 = DOMAIN m \cup {sid}
                  /\ m2[sid].status = "Graded"
                  /\ m2[sid].grade = rArg.grade
                  /\ sid \in DOMAIN m => FieldOf(m2[sid], "note") = FieldOf(m[sid], "note")
                  /\ "feedback" \notin DOMAIN m2[sid]
                  /\ OthersKept(m, m2, sid)
                  /\ \A b \in AssignmentIds \ {a} : assignments'[b] = assignments[b]
                  /\ submissions' = submissions ]_vars

\* a review has been saved for a submission that carried a note
C14_Witness ==
    /\ rResult = "ok"
    /\ \E a \in AssignmentIds, sid \in Ids :
          /\ <<a, sid>> \in DOMAIN submissions
          /\ submissions[<<a, sid>>].status = "graded"
          /\ submissions[<<a, sid>>].feedback = "good"
          /\ assignments[a] # NoDoc
          /\ sid \in DOMAIN assignments[a].statusMap
          /\ FieldOf(assignments[a].statusMap[sid], "status") = "Graded"
          /\ FieldOf(assignments[a].statusMap[sid], "grade") = "A"
          /\ FieldOf(assignments[a].statusMap[sid], "note") = "n"

\* C15: when the second write of a submit or of a review fails after the
\* first succeeded, the handler reports an error and ends without writing
\* anything: the submission stays as the first write left it and the
\* statusMap stays as it was.
C15_NoCompensation ==
    [][ /\ (SubmitStatusMapFail \/ (SubmitStatusMap /\ sResult' = "error")) =>
              /\ sResult' = "error"
              /\ spc' = "idle"
              /\ submissions' = submissions
              /\ assignments' = assignments
        /\ (GradeStatusMapFail \/ (GradeStatusMap /\ rResult' = "error")) =>
              /\ rResult' = "error"
              /\ rpc' = "idle"
              /\ submissions' = submissions
              /\ assignments' = assignments ]_vars

\* both handlers have failed at their second write: a graded submission
\* stands next to a statusMap entry that is still "Assigned"
C15_Witness ==
    /\ sResult = "error"
    /\ rResult = "error"
    /\ \E a \in AssignmentIds, sid \in Ids :
          /\ <<a, sid>> \in DOMAIN submissions
          /\ submissions[<<a, sid>>].status = "graded"
          /\ assignments[a] # NoDoc
          /\ sid \in DOMAIN assignments[a].statusMap
          /\ FieldOf(assignments[a].statusMap[sid], "status") = "Assigned"

\* ------------------------------------------------------------------------
\* Saving a day: what is kept and what is written
\* ------------------------------------------------------------------------
\* the attendees this save writes a record for: those of the page's roster
\* with a status in the form
SaveEdits(c) == {id \in DOMAIN mAttendees[c] : HasStatus(attendanceData[c], id)}

\* C16: a SaveDay carries every stored record of an attendee that is not
\* among its edits (no status in the form, or no longer in the roster)
\* unchanged into its payload, and its write, finding the day document as
\* its read left it, leaves each such record stored and unchanged.
C16_SaveKeepsOtherRecords ==
    [][ \A c \in DayClients :
          /\ SaveRead(c) =>
                LET existing == ExistingRecords(attendance[selectedDate[c]])
                    payload  == mSave'[c].payload.records
                IN  \A id \in DOMAIN existing \ SaveEdits(c) :
                        id \in DOMAIN payload /\ payload[id] = existing[id]
          /\ (SaveWrite(c)
                /\ ExistingRecords(attendance[mSave[c].payload.date]) = mSave[c].existing) =>
                LET old     == ExistingRecords(attendance[mSave[c].payload.date])
                    new     == ExistingRecords(attendance'[mSave[c].payload.date])
                    payload == mSave[c].payload.records
                IN  \A id \in DOMAIN old :
                        /\ id \in DOMAIN new
                        /\ payload[id] = old[id] => new[id] = old[id]
      ]_vars

\* a save has completed on a page whose roster no longer holds attendee 2
\* and whose form was cleared: the stored record of attendee 2 is as it was
\* and so is the record of attendee 1
C16_Witness ==
    \E d \in Dates :
        /\ mResult["c1"] = "saved"
        /\ DOMAIN mAttendees["c1"] = {1}
        /\ attendanceData["c1"] = EmptyMap
        /\ DOMAIN attendees = {1}
        /\ attendance[d].records = SavedDay(d).records

\* C17: a save writes a record for an attendee only if the form holds a
\* status for that attendee, and the form comes to hold a status for an
\* attendee only by a status selection for that attendee, by Mark All or by
\* the load of the stored day; typing a note gives the attendee no status.
C17_OnlyChosenStatusWritten ==
    [][ \A c \in DayClients :
          /\ SaveRead(c) =>
                LET existing == ExistingRecords(attendance[selectedDate[c]])
                    payload  == mSave'[c].payload.records
                IN  \A id \in DOMAIN payload :
                        (id \notin DOMAIN existing \/ payload[id] # existing[id])
                            => HasStatus(attendanceData[c], id)
          /\ \A id \in Ids :
                (~HasStatus(attendanceData[c], id) /\ HasStatus(attendanceData'[c], id))
                    => \/ \E st \in Statuses : HandleAttendanceChange(c, id, "status", st)
                       \/ HandleMarkAll(c, "Present")
                       \/ FetchAttendanceForDate(c)
      ]_vars

\* ------------------------------------------------------------------------
\* The identity resolver
\* ------------------------------------------------------------------------
\* callback n ends in this step
Resolved(n) ==
    /\ n \in DOMAIN aCalls
    /\ InFlight(aCalls[n])
    /\ aCalls'[n].pc = "done"

\* C18: when the callback of an auth-state event for a signed-in principal
\* ends, with no other event delivered meanwhile, loading is false and: with
\* no user profile document, user, userProfile and studentProfile are null;
\* otherwise user is the principal and userProfile the stored profile, and
\* studentProfile is the linked attendee for a student whose studentId names
\* an attendee of the roster, and null for a student whose link is missing
\* or names no attendee and for a teacher.
C18_ResolvedState ==
    [][ \A n \in 1..MaxAuthEvents :
          Resolved(n) =>
              LET u       == aCalls[n].user
                  profile == UserDoc(u)
              IN  /\ aLoading' = FALSE
                  /\ profile = NoDoc =>
                        /\ aUser' = NoDoc
                        /\ aUserProfile' = NoDoc
                        /\ aStudentProfile' = NoDoc
                  /\ profile # NoDoc =>
                        /\ aUser' = u
                        /\ aUserProfile' = profile
                        /\ UserRole(aUserProfile') = profile.role
                        /\ (profile.role = "teacher") => aStudentProfile' = NoDoc
                        /\ (profile.role = "student" /\ profile.studentId \notin DOMAIN attendees)
                              => aStudentProfile' = NoDoc
                        /\ (profile.role = "student" /\ profile.studentId \in DOMAIN attendees)
                              => /\ aStudentProfile' # NoDoc
                                 /\ aStudentProfile'.id = profile.studentId
                                 /\ aStudentProfile'.email = attendees[profile.studentId].email
      ]_vars

\* a student whose studentId names no attendee has been resolved: the
\* session is authenticated, with no studentProfile
C18_Witness ==
    /\ aLoading = FALSE
    /\ aUser # NoDoc
    /\ aUserProfile # NoDoc
    /\ aUserProfile.role = "student"
    /\ aUserProfile.studentId # 0
    /\ aUserProfile.studentId \notin DOMAIN attendees
    /\ aStudentProfile = NoDoc
    /\ \E n \in DOMAIN aCalls : aCalls[n].pc = "done" /\ aCalls[n].user = aUser

\* C19: when a read made by the callback fails, the resolver ends as for a
\* missing profile: userProfile is null and loading is false.
C19_LookupFailureEndsSignedOut ==
    [][ \A n \in 1..MaxAuthEvents :
          ResolveFail(n) => (aUserProfile' = NoDoc /\ aLoading' = FALSE) ]_vars

\* ------------------------------------------------------------------------
\* The attendance percentage
\* ------------------------------------------------------------------------
\* n / d rounded to the nearest integer, halves up
RoundedQuotient(n, d) == (2 * n + d) \div (2 * d)

C21_LaterWriteReplaces ==
    [][ \A c \in DayClients :
          SaveWrite(c) =>
              LET payload == mSave[c].payload
                  stored  == attendance'[payload.date]
              IN  \A id \in DOMAIN payload.records :
                      /\ id \in DOMAIN stored.records
                      /\ stored.records[id] = payload.records[id]
      ]_vars

\* both saves are complete. c1 marked everyone Present and saved: the record
\* of attendee 2, which only that save can have written, is stored. c2 saved
\* a cleared form: its payload was its read, taken before the write of c1
\* (the stored summary, written last, counts one record), and its write put
\* attendee 1 back to Absent.
C21_Witness ==
    \E d \in Dates :
        /\ \A c \in DayClients : mResult[c] = "saved" /\ mpc[c] = "idle" /\ mOps[c] = 2
        /\ attendanceData["c2"] = EmptyMap
        /\ DOMAIN attendanceData["c1"] = {1, 2}
        /\ attendanceData["c1"][1].status = "Present"
        /\ DOMAIN attendance[d].records = {1, 2}
        /\ attendance[d].records[2].status = "Present"
        /\ attendance[d].records[1].status = "Absent"
        /\ attendance[d].summary.total = 1
        /\ \A c \in DayClients : mLoad[c] = "none"

\* ------------------------------------------------------------------------
\* User profiles
\* ------------------------------------------------------------------------
\* the profile names an attendee
HasStudentId(profile) == "studentId" \in DOMAIN profile /\ profile.studentId # 0

\* C22: in every reachable state every user profile has a studentId if and
\* only if its role is student, and no step changes the role of a stored
\* profile.
C22_ProfileRoleStable ==
    /\ [](\A u \in DOMAIN users : HasStudentId(users[u]) <=> users[u].role = "student")
    /\ [][ \A u \in (DOMAIN users) \cap (DOMAIN users') : users'[u].role = users[u].role ]_vars

\* ------------------------------------------------------------------------
\* Sessions
\* ------------------------------------------------------------------------
\* the guard renders a protected route for a signed-in user
Admitted == ~aLoading /\ aUser # NoDoc /\ path[Device] # "/login"

\* C23: while the login page shows "Login Failed" (for a role mismatch as
\* for wrong credentials), the auth provider has no signed-in principal on
\* the device and the route guard admits nobody to a protected route.
C23_RejectedLoginLeavesNoSession ==
    lResult[Device] = "LoginFailed" => (authUser[Device] = NoDoc /\ ~Admitted)

\* ------------------------------------------------------------------------
\* Submit and review together
\* ------------------------------------------------------------------------
\* the submission's status and the status of the student's statusMap entry
StatusPair(key) ==
    <<submissions[key].status,
      FieldOf(StatusMapOf(assignments[key[1]])[key[2]], "status")>>

\* C24: once one submit and one review of the same submission have both
\* completed without a write failure, the submission's status and the
\* statusMap entry's status agree: submitted with Submitted, or graded with
\* Graded.
C24_SubmitAndGradeAgree ==
    (/\ sOps = 1 /\ sResult = "ok" /\ spc # "submit_map"
     /\ rOps = 1 /\ rResult = "ok" /\ rpc = "idle")
        => \A key \in DOMAIN submissions :
               StatusPair(key) \in {<<"submitted", "Submitted">>, <<"graded", "Graded">>}

\* the student's statusMap entry of assignment a in store asg is Graded
IsGraded(asg, a, sid) ==
    /\ asg[a] # NoDoc
    /\ sid \in DOMAIN StatusMapOf(asg[a])
    /\ FieldOf(StatusMapOf(asg[a])[sid], "status") = "Graded"

\* C25: once the stored statusMap entry of a student is Graded, no step of
\* the student's page (confirming a dialog opened from a list fetched
\* before the grade included) changes the entry's status or the status of
\* the student's submission.
C25_NoSubmitAfterGraded ==
    [][ StudentNext =>
            \A a \in AssignmentIds, sid \in Ids :
                IsGraded(assignments, a, sid) =>
                    /\ IsGraded(assignments', a, sid)
                    /\ <<a, sid>> \in DOMAIN submissions =>
                           submissions'[<<a, sid>>].status = submissions[<<a, sid>>].status ]_vars

\* ------------------------------------------------------------------------
\* Deleting an assignment
\* ------------------------------------------------------------------------
\* C28: every submission's assignmentId names an existing assignment, and
\* no step creates or modifies a submission of an assignment that does not
\* exist.
C28_NoSubmissionOfDeletedAssignment ==
    /\ [](\A key \in DOMAIN submissions : assignments[key[1]] # NoDoc)
    /\ [][ \A a \in AssignmentIds, sid \in Ids :
              assignments[a] = NoDoc =>
                  /\ <<a, sid>> \in DOMAIN submissions' <=> <<a, sid>> \in DOMAIN submissions
                  /\ <<a, sid>> \in DOMAIN submissions =>
                         submissions'[<<a, sid>>] = submissions[<<a, sid>>] ]_vars

\* ------------------------------------------------------------------------
\* Moving an attendee between the collections
\* ------------------------------------------------------------------------
\* attendee id is in the active or in the archived collection
Present(active, archived, id) == id \in DOMAIN active \/ id \in DOMAIN archived

\* attendee id is in both collections
InBoth(id) == id \in DOMAIN attendees /\ id \in DOMAIN deleted_attendees

\* C30: no step removes an attendee from both collections; between the two
\* writes of a soft delete or of a restore the attendee is in both, and it
\* stays in both when the second write fails.
C30_NeverLostFromBoth ==
    /\ [][ \A id \in Ids :
              Present(attendees, deleted_attendees, id)
                  => Present(attendees', deleted_attendees', id) ]_vars
    /\ [](tpc \in {"del_remove", "restore_remove"} => InBoth(targ.id))
    /\ [][ RemoveFail => (targ.id \in DOMAIN attendees' /\ targ.id \in DOMAIN deleted_attendees') ]_vars

\* the delete of a restore has failed: the attendee is active again and
\* still archived
C30_Witness ==
    /\ tpc = "idle"
    /\ tResult = "error"
    /\ view = "deleted"
    /\ targ # NoDoc
    /\ "originalId" \in DOMAIN targ
    /\ InBoth(targ.id)

\* ------------------------------------------------------------------------
\* Interleaved auth-state callbacks
\* ------------------------------------------------------------------------
\* C26: whenever the hook is not loading, a resolved userProfile comes with
\* a user, and it is the profile of that user.
C26_ProfileBelongsToUser ==
    (~aLoading /\ aUserProfile # NoDoc) => (aUser # NoDoc /\ aUserProfile.email = aUser)

\* ------------------------------------------------------------------------
\* After a student signup
\* ------------------------------------------------------------------------
\* the signup of a student has completed on the device: the account is
\* signed in and its profile links it to an attendee of the roster
StudentSignedUp ==
    /\ lResult[Device] = "AccountCreated"
    /\ authUser[Device] \in DOMAIN users
    /\ HasStudentLink(users[authUser[Device]])
    /\ users[authUser[Device]].studentId \in DOMAIN attendees

\* the hook shows the signed-in account as a student with its attendee,
\* and the device shows the student portal
InStudentPortal ==
    /\ ~aLoading
    /\ aUser = authUser[Device]
    /\ UserRole(aUserProfile) = "student"
    /\ aStudentProfile # NoDoc
    /\ authUser[Device] \in DOMAIN users
    /\ HasStudentLink(users[authUser[Device]])
    /\ aStudentProfile.id = users[authUser[Device]].studentId
    /\ path[Device] = "/student"

\* C27: after a student signup has completed, the resolved auth state
\* eventually shows the account as a signed-in student with the linked
\* attendee as studentProfile, on the student portal.
C27_SignupReachesPortal == StudentSignedUp ~> InStudentPortal

\* ------------------------------------------------------------------------
\* Changing the date
\* ------------------------------------------------------------------------
\* C29: every status a save writes for the selected date was loaded from
\* that date's document or chosen while that date was selected.
C29_SavedStatusesBelongToDate ==
    [][ \A c \in DayClients :
          SaveRead(c) =>
              \A id \in DOMAIN mAttendees[c] :
                  HasStatus(attendanceData[c], id) => mOrigin[c][id] = selectedDate[c] ]_vars

====
